---- MODULE Spec2Model ----
(***************************************************************************)
(* A model of ruleql: RuleEngine.processRules, ConditionExecutor.executeAll *)
(* (with its DataLoader) and EffectExecutor.executeAll.                     *)
(*                                                                         *)
(* Strings that the code takes apart (the keys of getPathMap, the paths of *)
(* _.get) are sequences of tokens: a natural number n is the decimal       *)
(* numeral of n, and LBRACKET, RBRACKET and DOT are the characters          *)
(* '[', ']' and '.'.                                                        *)
(***************************************************************************)
EXTENDS Integers, Sequences, FiniteSets, TLC

(***************************************************************************)
(* Bounds of the model.                                                    *)
(***************************************************************************)
MaxNodes == 5

(***************************************************************************)
(* Characters of path strings.                                             *)
(***************************************************************************)
LBRACKET == -1
RBRACKET == -2
DOT == -3

Undefined == [kind |-> "undefined"]

IsArray(value) == value.kind = "array"

Arr(items) == [kind |-> "array", items |-> items]

(***************************************************************************)
(* A JavaScript object with string keys, as the sequence of its entries in *)
(* the order Object.keys enumerates them: integer-like keys in ascending   *)
(* numeric order first, then the other keys in insertion order.            *)
(***************************************************************************)
IsIndexKey(k) == Len(k) = 1 /\ k[1] >= 0

RECURSIVE FindKey(_, _, _)
FindKey(obj, k, i) ==
  IF i > Len(obj) THEN 0
  ELSE IF obj[i].k = k THEN i
  ELSE FindKey(obj, k, i + 1)

\* number of entries that Object.keys lists before a new key k
RECURSIVE InsertPos(_, _, _)
InsertPos(obj, k, i) ==
  IF i > Len(obj) THEN Len(obj)
  ELSE IF IsIndexKey(k) /\ (~IsIndexKey(obj[i].k) \/ obj[i].k[1] > k[1]) THEN i - 1
  ELSE InsertPos(obj, k, i + 1)

\* (the object is bound to o so that it is computed once)
ObjSet(obj, k, v) ==
  CHOOSE set \in
    {LET at == FindKey(o, k, 1)
         pos == InsertPos(o, k, 1)
         entry == [k |-> k, v |-> v]
     IN IF at > 0 THEN [o EXCEPT ![at] = entry]
        ELSE SubSeq(o, 1, pos) \o <<entry>> \o SubSeq(o, pos + 1, Len(o)) :
     o \in {obj}} : TRUE

RECURSIVE AssignFrom(_, _, _)
AssignFrom(result, source, i) ==
  IF i > Len(source) THEN result
  ELSE AssignFrom(ObjSet(result, source[i].k, source[i].v), source, i + 1)

Assign(result, source) ==
  CHOOSE assigned \in {AssignFrom(r, s, 1) : r \in {result}, s \in {source}} : TRUE

ObjectKeys(obj) == [i \in 1..Len(obj) |-> obj[i].k]

\* String.prototype.indexOf for one character; -1 when absent
RECURSIVE IndexOfFrom(_, _, _)
IndexOfFrom(s, c, i) ==
  IF i > Len(s) THEN -1
  ELSE IF s[i] = c THEN i - 1
  ELSE IndexOfFrom(s, c, i + 1)

IndexOf(s, c) == IndexOfFrom(s, c, 1)

\* String.prototype.slice(from, to) with 0-based bounds
Slice(s, from, to) == SubSeq(s, from + 1, to)

(***************************************************************************)
(* getPathMap: the map of paths to the non-array elements of a nested      *)
(* array.                                                                  *)
(***************************************************************************)
MappedKey(key, mkey) ==
  LET index == IndexOf(mkey, DOT)
  IN IF -1 # index
     THEN <<key, LBRACKET>> \o Slice(mkey, 0, index) \o <<RBRACKET>>
          \o Slice(mkey, index, Len(mkey))
     ELSE <<key, LBRACKET>> \o mkey \o <<RBRACKET>>

RECURSIVE MapKeysFrom(_, _, _, _)
MapKeysFrom(result, obj, key, i) ==
  IF i > Len(obj) THEN result
  ELSE MapKeysFrom(ObjSet(result, MappedKey(key, obj[i].k), obj[i].v), obj, key, i + 1)

MapKeys(obj, key) ==
  CHOOSE mapped \in {MapKeysFrom(<<>>, o, key, 1) : o \in {obj}} : TRUE

RECURSIVE getPathMap(_)
RECURSIVE TransformFrom(_, _, _)
TransformFrom(arr, result, i) ==
  IF i > Len(arr) THEN result
  ELSE LET value == arr[i]
           key == i - 1
       IN TransformFrom(arr,
            IF IsArray(value)
            THEN Assign(result, MapKeys(getPathMap(value.items), key))
            ELSE ObjSet(result, <<key>>, value),
            i + 1)

getPathMap(arr) == TransformFrom(arr, <<>>, 1)

(***************************************************************************)
(* _.flattenDeep: the non-array elements in depth-first order.             *)
(***************************************************************************)
RECURSIVE flattenDeep(_)
flattenDeep(arr) ==
  IF Len(arr) = 0 THEN <<>>
  ELSE (IF IsArray(arr[1]) THEN flattenDeep(arr[1].items) ELSE <<arr[1]>>)
       \o flattenDeep(Tail(arr))

(***************************************************************************)
(* String.prototype.split for a one-character separator.                   *)
(***************************************************************************)
RECURSIVE Split(_, _)
Split(s, c) ==
  LET index == IndexOf(s, c)
  IN IF index = -1 THEN <<s>>
     ELSE <<Slice(s, 0, index)>> \o Split(Slice(s, index + 1, Len(s)), c)

(***************************************************************************)
(* _.get(object, path): the path string is cut into property names the way *)
(* lodash does (a run of characters other than '.', '[' and ']' is a name,  *)
(* '[n]' is the name n, any other character is skipped), and the names are *)
(* followed from the object.                                               *)
(***************************************************************************)
RECURSIVE StringToPath(_)
StringToPath(s) ==
  IF Len(s) = 0 THEN <<>>
  ELSE IF s[1] >= 0 THEN <<s[1]>> \o StringToPath(Tail(s))
  ELSE IF Len(s) >= 3 /\ s[1] = LBRACKET /\ s[2] >= 0 /\ s[3] = RBRACKET
       THEN <<s[2]>> \o StringToPath(SubSeq(s, 4, Len(s)))
  ELSE StringToPath(Tail(s))

RECURSIVE BaseGet(_, _)
BaseGet(value, path) ==
  IF Len(path) = 0 THEN value
  ELSE IF IsArray(value) /\ path[1] + 1 <= Len(value.items)
       THEN BaseGet(value.items[path[1] + 1], Tail(path))
  ELSE Undefined

Get(arr, path) == BaseGet(Arr(arr), StringToPath(path))

(***************************************************************************)
(* JavaScript values.                                                      *)
(***************************************************************************)
Bool(b) == [kind |-> "boolean", b |-> b]
Num(n) == [kind |-> "number", n |-> n]
Str(s) == [kind |-> "string", s |-> s]
NaN == [kind |-> "NaN"]
Throw == [kind |-> "throw"]
TypeError == [kind |-> "throw", name |-> "TypeError"]
RangeError == [kind |-> "throw", name |-> "RangeError"]
Errors == {Throw, TypeError, RangeError}
Null == [kind |-> "null"]

\* Boolean(value)
ToBoolean(v) ==
  CASE v.kind = "boolean" -> v.b
    [] v.kind = "number" -> v.n # 0
    [] v.kind = "string" -> v.s # ""
    [] v.kind = "object" -> TRUE
    [] OTHER -> FALSE

\* Number(value)
ToNumber(v) ==
  CASE v.kind = "number" -> v
    [] v.kind = "boolean" -> Num(IF v.b THEN 1 ELSE 0)
    [] OTHER -> NaN

IsUndefined(v) == v.kind = "undefined"

(***************************************************************************)
(* Documents.  A field node has a name, its arguments in the order the     *)
(* document gives them, and its selection set; the root of a document is   *)
(* an OperationDefinition node.                                            *)
(***************************************************************************)
Field(name, arguments, selections) ==
  [kind |-> "Field", name |-> name, arguments |-> arguments, selections |-> selections]

Query(selections) ==
  [kind |-> "OperationDefinition", name |-> "", arguments |-> <<>>, selections |-> selections]

Argument(name, value) == [name |-> name, value |-> value]

\* the arguments each field of the schema declares, in declaration order
ArgumentDefs(name) ==
  CASE name \in {"greaterThan", "lessThan"} -> <<"path", "value", "valuePath">>
    [] name \in {"add", "multiply", "divide", "default", "merge", "set"} ->
         <<"path", "value", "valuePath">>
    [] name = "customEffect" -> <<"path", "value">>
    [] OTHER -> <<>>

RECURSIVE ArgumentValue(_, _)
ArgumentValue(arguments, name) ==
  IF Len(arguments) = 0 THEN Undefined
  ELSE IF arguments[1].name = name THEN arguments[1].value
  ELSE ArgumentValue(Tail(arguments), name)

\* getArgs: the values of the supplied arguments, keyed in the order of the
\* field's definition
RECURSIVE ArgsFrom(_, _)
ArgsFrom(defs, arguments) ==
  IF Len(defs) = 0 THEN <<>>
  ELSE LET v == ArgumentValue(arguments, defs[1])
       IN (IF IsUndefined(v) THEN <<>> ELSE <<[k |-> defs[1], v |-> v]>>)
          \o ArgsFrom(Tail(defs), arguments)

getArgs(field) == ArgsFrom(ArgumentDefs(field.name), field.arguments)

\* args.name for an args object
RECURSIVE Arg(_, _)
Arg(args, name) ==
  IF Len(args) = 0 THEN Undefined
  ELSE IF args[1].k = name THEN args[1].v
  ELSE Arg(Tail(args), name)

JSONValue(v) ==
  CASE v.kind = "number" -> ToString(v.n)
    [] v.kind = "string" -> "\"" \o v.s \o "\""
    [] v.kind = "boolean" -> (IF v.b THEN "true" ELSE "false")
    [] OTHER -> "null"

RECURSIVE JSONMembers(_)
JSONMembers(args) ==
  IF Len(args) = 0 THEN ""
  ELSE "\"" \o args[1].k \o "\":" \o JSONValue(args[1].v)
       \o (IF Len(args) > 1 THEN "," ELSE "") \o JSONMembers(Tail(args))

JSONStringify(args) == "{" \o JSONMembers(args) \o "}"

cacheKeyFn(keyInput) == keyInput.name \o ":" \o JSONStringify(keyInput.args)

(***************************************************************************)
(* The execution context: the value at path foo and the reserved key rule. *)
(***************************************************************************)
Result(context, path) ==
  CASE path = "foo" -> context.foo
    [] path = "rule" -> context.rule
    [] path = "rule.id" ->
         (IF context.rule.kind = "object" THEN Num(context.rule.id) ELSE Undefined)
    [] OTHER -> Undefined

Set(context, path, value) ==
  CASE path = "foo" -> [context EXCEPT !.foo = value]
    [] OTHER -> context

\* a variant of getValue that takes a call with neither value nor valuePath
getValueLenient(value, valuePath, context) ==
  IF ~IsUndefined(value) /\ ~IsUndefined(valuePath) THEN Throw
  ELSE IF ~IsUndefined(value) THEN value
  ELSE IF IsUndefined(valuePath) THEN Undefined
  ELSE Result(context, valuePath.s)

\* assertSingleValue and getValue; Throw when assertSingleValue throws
getValue(value, valuePath, context) ==
  IF ~IsUndefined(value) /\ ~IsUndefined(valuePath) THEN Throw
  ELSE IF IsUndefined(value) /\ IsUndefined(valuePath) THEN Throw
  ELSE IF ~IsUndefined(value) THEN value
  ELSE Result(context, valuePath.s)

(***************************************************************************)
(* Condition resolvers.  always, never, greaterThan and lessThan are built  *)
(* in; someCondition is a custom resolver that returns a promise; the      *)
(* field orphan is declared in the schema and has no resolver.             *)
(***************************************************************************)
SyncConditionResolvers == {"always", "never", "greaterThan", "lessThan"}
AsyncConditionResolvers == {"someCondition"}
ConditionResolvers == SyncConditionResolvers \cup AsyncConditionResolvers

Compare(name, args, context) ==
  LET actual == ToNumber(Result(context, Arg(args, "path").s))
      val == getValue(Arg(args, "value"), Arg(args, "valuePath"), context)
  IN IF val = Throw THEN Throw
     ELSE IF actual.kind # "number" \/ val.kind # "number" THEN Bool(FALSE)
     ELSE IF name = "greaterThan" THEN Bool(actual.n > val.n)
     ELSE Bool(actual.n < val.n)

\* a variant of ConditionResolver that throws for a missing resolver
ConditionResolverStrict(name, args, context) ==
  CASE name = "always" -> Bool(TRUE)
    [] name = "never" -> Bool(FALSE)
    [] name \in {"greaterThan", "lessThan"} -> Compare(name, args, context)
    [] OTHER -> Throw

\* what a synchronous resolver (or _.noop for a missing one) returns
ConditionResolver(name, args, context) ==
  CASE name = "always" -> Bool(TRUE)
    [] name = "never" -> Bool(FALSE)
    [] name \in {"greaterThan", "lessThan"} -> Compare(name, args, context)
    [] OTHER -> Undefined

\* what the promise of a custom resolver may settle with
CustomValues == {Bool(TRUE), Bool(FALSE), Num(1), Str(""), Undefined, Throw}

(***************************************************************************)
(* ConditionExecutor: the keys that evaluating a document loads, in the    *)
(* order of the synchronous walk, and the value of a document once the     *)
(* loads have resolved.                                                    *)
(***************************************************************************)
LogicalNames == {"and", "or", "xor", "not"}

RECURSIVE LoadsOf(_)
RECURSIVE LoadsOfAll(_)
\* a variant of LoadsOf that walks the children of a node up to the first
\* one that decides it: a `never` under the root or an `and`, an `always`
\* under an `or`
LoadsOfShortCircuit(field) ==
  LET name == IF field.kind = "OperationDefinition" THEN "and" ELSE field.name
      deciding == {k \in 1..Len(field.selections) :
                     \/ name = "and" /\ field.selections[k].name = "never"
                     \/ name = "or" /\ field.selections[k].name = "always"}
      last == IF deciding = {} THEN Len(field.selections)
              ELSE CHOOSE k \in deciding : \A j \in deciding : k <= j
  IN IF field.kind = "OperationDefinition" \/ field.name \in LogicalNames
     THEN LoadsOfAll(SubSeq(field.selections, 1, last))
     ELSE <<[name |-> field.name, args |-> getArgs(field)]>>

\* the loads the walk of a document makes, in the order it makes them: the
\* children of a node are all walked before any load has a value
LoadsOf(field) ==
  IF field.kind = "OperationDefinition" \/ field.name \in LogicalNames
  THEN LoadsOfAll(field.selections)
  ELSE <<[name |-> field.name, args |-> getArgs(field)]>>

LoadsOfAll(selections) ==
  IF Len(selections) = 0 THEN <<>>
  ELSE LoadsOf(selections[1]) \o LoadsOfAll(Tail(selections))

validateSingleCondition(field, loaded) ==
  loaded[cacheKeyFn([name |-> field.name, args |-> getArgs(field)])]

RECURSIVE validateConditions(_, _)
validateANDConditions(field, loaded) ==
  \A i \in 1..Len(field.selections) : validateConditions(field.selections[i], loaded)

validateORConditions(field, loaded) ==
  \E i \in 1..Len(field.selections) : validateConditions(field.selections[i], loaded) = TRUE

\* a variant of validateXORConditions: an odd number of true children
validateXORParity(field, loaded) ==
  Cardinality({i \in 1..Len(field.selections) :
                 validateConditions(field.selections[i], loaded)}) % 2 = 1

validateXORConditions(field, loaded) ==
  Cardinality({i \in 1..Len(field.selections) :
                 validateConditions(field.selections[i], loaded)}) = 1

validateNOTConditions(field, loaded) == ~validateANDConditions(field, loaded)

validateConditions(field, loaded) ==
  IF field.kind = "OperationDefinition" \/ field.name = "and"
  THEN validateANDConditions(field, loaded)
  ELSE IF field.name = "or" THEN validateORConditions(field, loaded)
  ELSE IF field.name = "xor" THEN validateXORConditions(field, loaded)
  ELSE IF field.name = "not" THEN validateNOTConditions(field, loaded)
  ELSE validateSingleCondition(field, loaded)

(***************************************************************************)
(* Effect resolvers.  add and multiply are built in and synchronous;       *)
(* customEffect is a custom resolver that returns a promise and adds its   *)
(* value when the promise settles; the field orphanEffect is declared in   *)
(* the schema and has no resolver.                                         *)
(***************************************************************************)
SyncEffectResolvers == {"add", "multiply"}
AsyncEffectResolvers == {"customEffect"}
EffectResolvers == SyncEffectResolvers \cup AsyncEffectResolvers

IsNumber(v) == v.kind = "number"

\* add and multiply: the context after the call, or Throw
Arithmetic(name, args, context) ==
  LET path == Arg(args, "path").s
      initial == Result(context, path)
      val == getValue(Arg(args, "value"), Arg(args, "valuePath"), context)
      updated == IF ~IsNumber(val) THEN NaN
                 ELSE IF name = "add" THEN Num(initial.n + val.n)
                 ELSE Num(initial.n * val.n)
  IN IF val = Throw THEN Throw
     ELSE IF ~IsNumber(initial) THEN TypeError
     ELSE Set(context, path, updated)

EffectResolver(name, args, context) == Arithmetic(name, args, context)

\* the write customEffect makes when its promise is fulfilled
CustomEffectWrite(args, context) ==
  LET path == Arg(args, "path").s
      initial == Result(context, path)
  IN IF IsNumber(initial)
     THEN Set(context, path, Num(initial.n + Arg(args, "value").n))
     ELSE context

\* _.omit(rule, ['effects', 'conditions'])
Omit(rule) == [kind |-> "object", id |-> rule.id]

(***************************************************************************)
(* executeEffect: every selection of the operation is started in document  *)
(* order, each synchronously up to the promise its resolver returns.       *)
(* The run is the context, the state of each operation's promise and the   *)
(* log of resolver invocations.                                            *)
(***************************************************************************)
\* a variant of executeEffect that treats a missing resolver as a resolver
\* that does nothing
RECURSIVE executeEffectLenient(_, _, _, _)
executeEffectLenient(rule, i, run, position) ==
  IF i > Len(rule.effects) THEN run
  ELSE LET field == rule.effects[i]
           name == field.name
           args == getArgs(field)
           call == [position |-> position, rule |-> rule.id, op |-> i, name |-> name,
                    metadata |-> run.context.rule]
           made == [position |-> position, op |-> i]
           after == IF name \in SyncEffectResolvers
                    THEN EffectResolver(name, args, run.context)
                    ELSE run.context
       IN executeEffectLenient(rule, i + 1,
            IF name \notin EffectResolvers
            THEN [run EXCEPT !.ops = Append(@, "fulfilled"),
                             !.built = Append(@, made)]
            ELSE IF name \in AsyncEffectResolvers
            THEN [run EXCEPT !.ops = Append(@, "pending"),
                             !.invoked = Append(@, call),
                             !.built = Append(@, made)]
            ELSE IF after \in Errors
            THEN [run EXCEPT !.ops = Append(@, "rejected"),
                             !.invoked = Append(@, call),
                             !.built = Append(@, made)]
            ELSE [context |-> after,
                  ops |-> Append(run.ops, "fulfilled"),
                  invoked |-> Append(run.invoked, call),
                  built |-> Append(run.built, made)],
            position)

\* a variant of executeEffect that starts an operation only when the
\* operations before it have finished
RECURSIVE executeEffectSequential(_, _, _, _)
executeEffectSequential(rule, i, run, position) ==
  IF i > Len(rule.effects) THEN run
  ELSE IF \E k \in 1..Len(run.ops) : run.ops[k] # "fulfilled" THEN run
  ELSE LET field == rule.effects[i]
           name == field.name
           args == getArgs(field)
           call == [position |-> position, rule |-> rule.id, op |-> i, name |-> name,
                    metadata |-> run.context.rule]
           made == [position |-> position, op |-> i]
           after == IF name \in SyncEffectResolvers
                    THEN EffectResolver(name, args, run.context)
                    ELSE run.context
       IN executeEffectSequential(rule, i + 1,
            IF name \notin EffectResolvers
            THEN [run EXCEPT !.ops = Append(@, "rejected")]
            ELSE IF name \in AsyncEffectResolvers
            THEN [run EXCEPT !.ops = Append(@, "pending"),
                             !.invoked = Append(@, call),
                             !.built = Append(@, made)]
            ELSE IF after \in Errors
            THEN [run EXCEPT !.ops = Append(@, "rejected"),
                             !.invoked = Append(@, call),
                             !.built = Append(@, made)]
            ELSE [context |-> after,
                  ops |-> Append(run.ops, "fulfilled"),
                  invoked |-> Append(run.invoked, call),
                  built |-> Append(run.built, made)],
            position)

\* a variant of executeEffect that starts no operation after one has failed
RECURSIVE executeEffectUntilFailure(_, _, _, _)
executeEffectUntilFailure(rule, i, run, position) ==
  IF i > Len(rule.effects) THEN run
  ELSE IF \E k \in 1..Len(run.ops) : run.ops[k] = "rejected" THEN run
  ELSE LET field == rule.effects[i]
           name == field.name
           args == getArgs(field)
           call == [position |-> position, rule |-> rule.id, op |-> i, name |-> name,
                    metadata |-> run.context.rule]
           made == [position |-> position, op |-> i]
           after == IF name \in SyncEffectResolvers
                    THEN EffectResolver(name, args, run.context)
                    ELSE run.context
       IN executeEffectUntilFailure(rule, i + 1,
            IF name \notin EffectResolvers
            THEN [run EXCEPT !.ops = Append(@, "rejected")]
            ELSE IF name \in AsyncEffectResolvers
            THEN [run EXCEPT !.ops = Append(@, "pending"),
                             !.invoked = Append(@, call),
                             !.built = Append(@, made)]
            ELSE IF after \in Errors
            THEN [run EXCEPT !.ops = Append(@, "rejected"),
                             !.invoked = Append(@, call),
                             !.built = Append(@, made)]
            ELSE [context |-> after,
                  ops |-> Append(run.ops, "fulfilled"),
                  invoked |-> Append(run.invoked, call),
                  built |-> Append(run.built, made)],
            position)

\* a variant of executeEffect that starts the operations last to first
RECURSIVE executeEffectReversed(_, _, _, _)
executeEffectReversed(rule, i, run, position) ==
  IF i > Len(rule.effects) THEN run
  ELSE LET op == Len(rule.effects) + 1 - i
           field == rule.effects[op]
           name == field.name
           args == getArgs(field)
           call == [position |-> position, rule |-> rule.id, op |-> op, name |-> name,
                    metadata |-> run.context.rule]
           made == [position |-> position, op |-> op]
           after == IF name \in SyncEffectResolvers
                    THEN EffectResolver(name, args, run.context)
                    ELSE run.context
       IN executeEffectReversed(rule, i + 1,
            IF name \notin EffectResolvers
            THEN [run EXCEPT !.ops = <<"rejected">> \o @]
            ELSE IF name \in AsyncEffectResolvers
            THEN [run EXCEPT !.ops = <<"pending">> \o @,
                             !.invoked = Append(@, call),
                             !.built = Append(@, made)]
            ELSE IF after \in Errors
            THEN [run EXCEPT !.ops = <<"rejected">> \o @,
                             !.invoked = Append(@, call),
                             !.built = Append(@, made)]
            ELSE [context |-> after,
                  ops |-> <<"fulfilled">> \o run.ops,
                  invoked |-> Append(run.invoked, call),
                  built |-> Append(run.built, made)],
            position)

\* the resolver is looked up first: without one the operation fails, and
\* neither are its arguments built nor is anything called
RECURSIVE executeEffect(_, _, _, _)
executeEffect(rule, i, run, position) ==
  IF i > Len(rule.effects) THEN run
  ELSE LET field == rule.effects[i]
           name == field.name
           args == getArgs(field)
           call == [position |-> position, rule |-> rule.id, op |-> i, name |-> name,
                    metadata |-> run.context.rule]
           made == [position |-> position, op |-> i]
           after == IF name \in SyncEffectResolvers
                    THEN EffectResolver(name, args, run.context)
                    ELSE run.context
       IN executeEffect(rule, i + 1,
            IF name \notin EffectResolvers
            THEN [run EXCEPT !.ops = Append(@, "rejected")]
            ELSE IF name \in AsyncEffectResolvers
            THEN [run EXCEPT !.ops = Append(@, "pending"),
                             !.invoked = Append(@, call),
                             !.built = Append(@, made)]
            ELSE IF after \in Errors
            THEN [run EXCEPT !.ops = Append(@, "rejected"),
                             !.invoked = Append(@, call),
                             !.built = Append(@, made)]
            ELSE [context |-> after,
                  ops |-> Append(run.ops, "fulfilled"),
                  invoked |-> Append(run.invoked, call),
                  built |-> Append(run.built, made)],
            position)

(***************************************************************************)
(* A document that the parser or the validation against the schema         *)
(* refuses: getDocumentOperationNode throws for it.  A rule's effects are  *)
(* the selections of its document, so effects that do not parse are a      *)
(* selection that is no field.                                             *)
(***************************************************************************)
Invalid == [kind |-> "invalid", name |-> "", arguments |-> <<>>, selections |-> <<>>]

ConditionsParse(rule) == rule.conditions.kind # "invalid"

EffectsParse(rule) == \A i \in 1..Len(rule.effects) : rule.effects[i].kind # "invalid"

\* EffectExecutor.execute: the document is parsed and validated, then its
\* operations are started; when it does not parse the promise of execute is
\* rejected and no operation is started
execute(rule, run, position) ==
  IF EffectsParse(rule) THEN executeEffect(rule, 1, run, position)
  ELSE [run EXCEPT !.ops = <<"rejected">>]

(***************************************************************************)
(* DataLoader.load: a key whose cache key is already in the cache gets the *)
(* cached promise; any other key is added to the cache and to the batch.   *)
(***************************************************************************)
\* a variant of Load that does not look in the cache
LoadUncached(loader, keyInput) ==
  [queue |-> Append(loader.queue, keyInput),
   cache |-> (cacheKeyFn(keyInput) :> [state |-> "queued", value |-> Undefined])
             @@ loader.cache]

Load(loader, keyInput) ==
  LET cacheKey == cacheKeyFn(keyInput)
  IN IF cacheKey \in DOMAIN loader.cache THEN loader
     ELSE [queue |-> Append(loader.queue, keyInput),
           cache |-> (cacheKey :> [state |-> "queued", value |-> Undefined]) @@ loader.cache]

RECURSIVE LoadAll(_, _)
LoadAll(loader, keyInputs) ==
  IF Len(keyInputs) = 0 THEN loader
  ELSE LoadAll(Load(loader, keyInputs[1]), Tail(keyInputs))

RECURSIVE LoadsOfRules(_)
LoadsOfRules(ruleList) ==
  IF Len(ruleList) = 0 THEN <<>>
  ELSE (IF ConditionsParse(ruleList[1]) THEN LoadsOf(ruleList[1].conditions) ELSE <<>>)
       \o LoadsOfRules(Tail(ruleList))

\* a variant of NewDataLoader that keeps the loader of the executor
KeepDataLoader(existing) == existing

\* this.dataLoader = new DataLoader(...): an empty batch and an empty cache,
\* whatever loader the executor had
NewDataLoader(existing) == [queue |-> <<>>, cache |-> <<>>]

\* the batch function: every resolver is called, in the order of the batch
\* a variant of ConditionContext in which a comparison stores its operand at
\* the path it reads
ConditionContextStored(name, args, context) ==
  IF name \in {"greaterThan", "lessThan"}
     /\ getValue(Arg(args, "value"), Arg(args, "valuePath"), context) # Throw
  THEN Set(context, Arg(args, "path").s,
           getValue(Arg(args, "value"), Arg(args, "valuePath"), context))
  ELSE context

\* the context after the call of a condition resolver: the built-in
\* resolvers read it with _.result and assign nothing
ConditionContext(name, args, context) == context

\* the context after the calls of the batch function
RECURSIVE ContextAfterBatch(_, _, _)
ContextAfterBatch(keyInputs, context, i) ==
  IF i > Len(keyInputs) THEN context
  ELSE ContextAfterBatch(keyInputs,
         ConditionContext(keyInputs[i].name, keyInputs[i].args, context), i + 1)

RECURSIVE BatchFrom(_, _, _, _)
BatchFrom(entries, keyInputs, context, i) ==
  IF i > Len(keyInputs) THEN entries
  ELSE LET name == keyInputs[i].name
           args == keyInputs[i].args
           cacheKey == cacheKeyFn(keyInputs[i])
           entry == IF name \in AsyncConditionResolvers
                    THEN [state |-> "pending", value |-> Undefined]
                    ELSE [state |-> "settled",
                          value |-> ConditionResolver(name, args, context)]
       IN BatchFrom([entries EXCEPT ![cacheKey] = entry], keyInputs, context, i + 1)

(***************************************************************************)
(* The selection loop of processRules.                                     *)
(***************************************************************************)
Includes(seq, x) == \E i \in 1..Len(seq) : seq[i] = x

\* a variant of SelectFrom that takes the whole path of a rule, not the part
\* before the first '[', for the rule set of the rule
RECURSIVE SelectFromWholePath(_, _, _, _, _)
SelectFromWholePath(ruleArray, rulePaths, conditionValidationResults, index, acc) ==
  IF index >= Len(rulePaths) THEN acc.rulesWithExecutableEffects
  ELSE LET rulePath == rulePaths[index + 1]
           conditionsEvaluatedTrue ==
             index + 1 <= Len(conditionValidationResults)
             /\ conditionValidationResults[index + 1]
           isPartOfRuleSet == Len(Split(rulePath, LBRACKET)) > 1
           ruleIndex == rulePath
       IN SelectFromWholePath(ruleArray, rulePaths, conditionValidationResults, index + 1,
            IF conditionsEvaluatedTrue
               /\ (~isPartOfRuleSet \/ ~Includes(acc.evaluatedRuleSets, ruleIndex))
            THEN [rulesWithExecutableEffects |->
                    Append(acc.rulesWithExecutableEffects, Get(ruleArray, rulePath)),
                  evaluatedRuleSets |->
                    IF isPartOfRuleSet THEN Append(acc.evaluatedRuleSets, ruleIndex)
                    ELSE acc.evaluatedRuleSets]
            ELSE acc)

RECURSIVE SelectFrom(_, _, _, _, _)
SelectFrom(ruleArray, rulePaths, conditionValidationResults, index, acc) ==
  IF index >= Len(rulePaths) THEN acc.rulesWithExecutableEffects
  ELSE LET rulePath == rulePaths[index + 1]
           conditionsEvaluatedTrue ==
             index + 1 <= Len(conditionValidationResults)
             /\ conditionValidationResults[index + 1]
           split == Split(rulePath, LBRACKET)
           isPartOfRuleSet == Len(split) > 1
           ruleIndex == split[1]
       IN SelectFrom(ruleArray, rulePaths, conditionValidationResults, index + 1,
            IF conditionsEvaluatedTrue
               /\ (~isPartOfRuleSet \/ ~Includes(acc.evaluatedRuleSets, ruleIndex))
            THEN [rulesWithExecutableEffects |->
                    Append(acc.rulesWithExecutableEffects, Get(ruleArray, rulePath)),
                  evaluatedRuleSets |->
                    IF isPartOfRuleSet THEN Append(acc.evaluatedRuleSets, ruleIndex)
                    ELSE acc.evaluatedRuleSets]
            ELSE acc)

SelectRules(ruleArray, conditionValidationResults) ==
  SelectFrom(ruleArray, ObjectKeys(getPathMap(ruleArray)), conditionValidationResults, 0,
             [rulesWithExecutableEffects |-> <<>>, evaluatedRuleSets |-> <<>>])

(***************************************************************************)
(* Rule collections: every nesting of rules and arrays (empty arrays too)   *)
(* with at most MaxNodes rules and nested arrays in all; the rules are     *)
(* numbered in depth-first order.                                          *)
(***************************************************************************)
RECURSIVE NodesOf(_)
RECURSIVE SeqsOf(_)
\* the nodes made of n rules and arrays
NodesOf(n) ==
  (IF n = 1 THEN {[kind |-> "rule"]} ELSE {})
  \cup {Arr(items) : items \in SeqsOf(n - 1)}

\* the sequences of nodes made of n rules and arrays in all
SeqsOf(n) ==
  IF n = 0 THEN {<<>>}
  ELSE UNION {{<<x>> \o rest : x \in NodesOf(k), rest \in SeqsOf(n - k)} : k \in 1..n}

RECURSIVE LeafCount(_)
RECURSIVE LeafCountAll(_)
LeafCount(node) == IF IsArray(node) THEN LeafCountAll(node.items) ELSE 1

LeafCountAll(items) ==
  IF Len(items) = 0 THEN 0 ELSE LeafCount(items[1]) + LeafCountAll(Tail(items))

RECURSIVE LabelAll(_, _, _)
LabelAll(items, start, leaf) ==
  IF Len(items) = 0 THEN <<>>
  ELSE <<IF IsArray(items[1])
         THEN Arr(LabelAll(items[1].items, start, leaf))
         ELSE leaf[start + 1]>>
       \o LabelAll(Tail(items), start + LeafCount(items[1]), leaf)

Rule(id, conditions, effects) ==
  [kind |-> "rule", id |-> id, conditions |-> conditions, effects |-> effects]

Predicate(name) == Field(name, <<>>, <<>>)

Comparison(name, path, value) ==
  Field(name, <<Argument("path", Str(path)), Argument("value", Num(value))>>, <<>>)

Always == Query(<<Predicate("always")>>)
Never == Query(<<Predicate("never")>>)
FooIsSmall == Query(<<Comparison("lessThan", "foo", 8)>>)

Operation(name, path, value) ==
  Field(name, <<Argument("path", Str(path)), Argument("value", Num(value))>>, <<>>)

\* the effects of the rule numbered id in a rule collection
EffectsOf(id) ==
  IF id % 3 = 0 THEN <<Operation("customEffect", "foo", id)>>
  ELSE IF id % 3 = 1 THEN <<Operation("add", "foo", id)>>
  ELSE <<Operation("multiply", "foo", id + 1)>>

SomeCondition == Query(<<Predicate("someCondition")>>)

\* the conditions of the rule numbered id: false, or true of the initial
\* context, or decided by the custom resolver
ConditionsOf(id, holds) ==
  IF ~holds THEN Never
  ELSE IF id % 3 = 0 THEN SomeCondition
  ELSE IF id % 3 = 1 THEN Always
  ELSE FooIsSmall

RuleCollections ==
  UNION {{LabelAll(shape, 0,
                   [i \in 1..LeafCountAll(shape) |->
                      Rule(i, ConditionsOf(i, holds[i]), EffectsOf(i))]) :
            holds \in [1..LeafCountAll(shape) -> BOOLEAN]} :
         shape \in UNION {SeqsOf(n) : n \in 1..MaxNodes}}

InitialContext == [foo |-> Num(7), rule |-> Undefined]

(***************************************************************************)
(* The state of one call.                                                  *)
(*   api       the method called: processRules, or executeAll of the       *)
(*             condition executor or of the effect executor                *)
(*   rules     the rules passed to the call                                *)
(*   context   the execution context, mutated in place                     *)
(*   pc        where the call is                                           *)
(*   queue, cache, batch   the DataLoader of the call: the keys of its     *)
(*             batch, the promise of each cache key, the state of the      *)
(*             batch                                                       *)
(*   calls     the key inputs the condition resolvers were called for      *)
(*   results   conditionValidationResults                                  *)
(*   selected  the rules passed to the effect executor                     *)
(*   current   the number of rules of selected whose effects were started  *)
(*   ops       for each started rule, the state of each operation's promise *)
(*   invoked   the effect resolver invocations, in order                   *)
(***************************************************************************)
VARIABLES api, rules, context, pc, queue, cache, batch, calls, results,
          selected, current, ops, invoked, built, dataLoader, second,
          construction, resolverCall

vars == <<api, rules, context, pc, queue, cache, batch, calls, results,
          selected, current, ops, invoked, built, dataLoader, second,
          construction, resolverCall>>

\* the state that belongs to no call of this executor's first caller
others == <<second, construction, resolverCall>>

Idle ==
  /\ context = InitialContext
  /\ queue = <<>>
  /\ cache = <<>>
  /\ batch = "none"
  /\ calls = <<>>
  /\ results = <<>>
  /\ current = 0
  /\ ops = <<>>
  /\ invoked = <<>>
  /\ built = <<>>
  /\ dataLoader = 0

\* no second call, no construction and no resolver call of their own
NoCall == [pc |-> "none"]
NoConstruction == [state |-> "none"]
NoResolverCall == [state |-> "none"]

Init ==
  /\ api = "processRules"
  /\ rules \in RuleCollections
  /\ pc = "start"
  /\ selected = <<>>
  /\ Idle
  /\ second = NoCall
  /\ construction = NoConstruction
  /\ resolverCall = NoResolverCall

\* the loader that the executor's field dataLoader references
ThisDataLoader ==
  IF dataLoader = 1 THEN [queue |-> queue, cache |-> cache]
  ELSE IF dataLoader = 2 THEN [queue |-> second.queue, cache |-> second.cache]
  ELSE [queue |-> <<>>, cache |-> <<>>]

(***************************************************************************)
(* ConditionExecutor.executeAll up to its first suspension: a new          *)
(* DataLoader, and every rule's document walked, which loads every         *)
(* predicate of every document that parses.  A document that does not      *)
(* parse rejects executeAll, while the loads of the other documents stay   *)
(* in the batch; without any rule executeAll resolves with no result.      *)
(***************************************************************************)
conditionExecuteAll ==
  /\ pc = "start"
  /\ LET loader == LoadAll(NewDataLoader(ThisDataLoader),
                           LoadsOfRules(flattenDeep(rules)))
     IN /\ queue' = loader.queue
        /\ cache' = loader.cache
        /\ batch' = IF loader.queue = <<>> THEN "none" ELSE "queued"
  /\ dataLoader' = 1
  /\ pc' = IF \E i \in 1..Len(flattenDeep(rules)) : ~ConditionsParse(flattenDeep(rules)[i])
           THEN "rejected"
           ELSE IF flattenDeep(rules) # <<>> THEN "conditions"
           ELSE IF api = "processRules" THEN "select"
           ELSE "resolved"
  /\ UNCHANGED <<api, rules, context, calls, results, selected, current, ops,
                 invoked, built, others>>

\* the DataLoader dispatches its batch: the batch function calls the
\* resolver of every key
dispatchBatch ==
  /\ batch = "queued"
  /\ cache' = BatchFrom(cache, queue, context, 1)
  /\ calls' = calls \o queue
  /\ queue' = <<>>
  /\ batch' = "dispatched"
  /\ context' = ContextAfterBatch(queue, context, 1)
  /\ UNCHANGED <<api, rules, pc, results, selected, current, ops, invoked, built, dataLoader, others>>

\* the promise of a custom resolver settles
resolverSettles ==
  \E cacheKey \in DOMAIN cache, value \in CustomValues :
    /\ cache[cacheKey].state = "pending"
    /\ cache' = [cache EXCEPT ![cacheKey] = [state |-> "settled", value |-> value]]
    /\ UNCHANGED <<api, rules, context, pc, queue, batch, calls, results,
                   selected, current, ops, invoked, built, dataLoader, others>>

Loaded == [cacheKey \in DOMAIN cache |-> ToBoolean(cache[cacheKey].value)]

\* a variant of batchResolves that does not wait for every resolver
batchResolvesEarly ==
  /\ batch = "dispatched"
  /\ \E cacheKey \in DOMAIN cache :
       cache[cacheKey].state = "settled" /\ cache[cacheKey].value # Throw
  /\ \A cacheKey \in DOMAIN cache : cache[cacheKey].value # Throw
  /\ batch' = "resolved"
  /\ results' = IF pc = "rejected" THEN results
                ELSE [i \in 1..Len(flattenDeep(rules)) |->
                        validateConditions(flattenDeep(rules)[i].conditions, Loaded)]
  /\ pc' = IF pc = "rejected" THEN pc
           ELSE IF api = "processRules" THEN "select" ELSE "resolved"
  /\ UNCHANGED <<api, rules, context, queue, cache, calls, selected, current, ops, invoked, built, dataLoader, others>>

\* every resolver of the batch has returned a value: the loads resolve, and
\* with them every document and executeAll
batchResolves ==
  /\ batch = "dispatched"
  /\ \A cacheKey \in DOMAIN cache :
       cache[cacheKey].state = "settled" /\ cache[cacheKey].value # Throw
  /\ batch' = "resolved"
  /\ results' = IF pc = "rejected" THEN results
                ELSE [i \in 1..Len(flattenDeep(rules)) |->
                        validateConditions(flattenDeep(rules)[i].conditions, Loaded)]
  /\ pc' = IF pc = "rejected" THEN pc
           ELSE IF api = "processRules" THEN "select" ELSE "resolved"
  /\ UNCHANGED <<api, rules, context, queue, cache, calls, selected, current, ops, invoked, built, dataLoader, others>>

\* a resolver of the batch has thrown: the batch fails, and with it every
\* load of the batch, every document and executeAll
batchRejects ==
  /\ batch = "dispatched"
  /\ \E cacheKey \in DOMAIN cache :
       cache[cacheKey].state = "settled" /\ cache[cacheKey].value = Throw
  /\ batch' = "rejected"
  /\ pc' = "rejected"
  /\ UNCHANGED <<api, rules, context, queue, cache, calls, results,
                 selected, current, ops, invoked, built, dataLoader, others>>

\* the promise of execute(rule.conditions) for the i-th rule: rejected when
\* the document does not parse; otherwise it waits for its loads, and the
\* loads of a batch are all resolved or all rejected with the batch
Tree(i) ==
  IF ~ConditionsParse(flattenDeep(rules)[i]) THEN "rejected"
  ELSE IF batch = "resolved" THEN "fulfilled"
  ELSE IF batch = "rejected" THEN "rejected"
  ELSE "pending"

\* processRules after the conditions: the selection loop
selectRules ==
  /\ pc = "select"
  /\ selected' = SelectRules(rules, results)
  /\ pc' = "effects"
  /\ UNCHANGED <<api, rules, context, queue, cache, batch, calls, results,
                 current, ops, invoked, built, dataLoader, others>>

(***************************************************************************)
(* EffectExecutor.executeAll.                                              *)
(***************************************************************************)
AllFulfilled(states) == \A i \in 1..Len(states) : states[i] = "fulfilled"

\* a variant of executeRule that does not wait for the previous rule
executeRuleWithoutAwait ==
  /\ pc = "effects"
  /\ current < Len(selected)
  /\ LET rule == selected[current + 1]
         run == execute(rule,
                        [context |-> [context EXCEPT !.rule = Omit(rule)],
                         ops |-> <<>>, invoked |-> invoked, built |-> built],
                        current + 1)
     IN /\ context' = run.context
        /\ ops' = Append(ops, run.ops)
        /\ invoked' = run.invoked
        /\ built' = run.built
  /\ current' = current + 1
  /\ UNCHANGED <<api, rules, pc, queue, cache, batch, calls, results, selected,
                 dataLoader, others>>

\* a variant of executeRule that waits for the previous rule's operations to
\* settle, fulfilled or rejected
executeRuleAllSettled ==
  /\ pc = "effects"
  /\ current < Len(selected)
  /\ current > 0 => \A i \in 1..Len(ops[current]) : ops[current][i] # "pending"
  /\ LET rule == selected[current + 1]
         run == execute(rule,
                        [context |-> [context EXCEPT !.rule = Omit(rule)],
                         ops |-> <<>>, invoked |-> invoked, built |-> built],
                        current + 1)
     IN /\ context' = run.context
        /\ ops' = Append(ops, run.ops)
        /\ invoked' = run.invoked
        /\ built' = run.built
  /\ current' = current + 1
  /\ UNCHANGED <<api, rules, pc, queue, cache, batch, calls, results, selected,
                 dataLoader, others>>

\* a variant of executeRule that leaves the context's rule key as it is
executeRuleWithoutMetadata ==
  /\ pc = "effects"
  /\ current < Len(selected)
  /\ current > 0 => AllFulfilled(ops[current])
  /\ LET rule == selected[current + 1]
         run == execute(rule,
                        [context |-> context,
                         ops |-> <<>>, invoked |-> invoked, built |-> built],
                        current + 1)
     IN /\ context' = run.context
        /\ ops' = Append(ops, run.ops)
        /\ invoked' = run.invoked
        /\ built' = run.built
  /\ current' = current + 1
  /\ UNCHANGED <<api, rules, pc, queue, cache, batch, calls, results, selected,
                 dataLoader, others>>

\* one turn of the loop: the rule's metadata is put in the context and its
\* operations are started
executeRule ==
  /\ pc = "effects"
  /\ current < Len(selected)
  /\ current > 0 => AllFulfilled(ops[current])
  /\ LET rule == selected[current + 1]
         run == execute(rule,
                        [context |-> [context EXCEPT !.rule = Omit(rule)],
                         ops |-> <<>>, invoked |-> invoked, built |-> built],
                        current + 1)
     IN /\ context' = run.context
        /\ ops' = Append(ops, run.ops)
        /\ invoked' = run.invoked
        /\ built' = run.built
  /\ current' = current + 1
  /\ UNCHANGED <<api, rules, pc, queue, cache, batch, calls, results, selected,
                 dataLoader, others>>

\* the promise of a custom effect resolver is fulfilled (its write is made)
\* or rejected; this may happen after executeAll has rejected
operationSettles ==
  \E r \in 1..Len(ops) : \E i \in 1..Len(ops[r]) :
    /\ ops[r][i] = "pending"
    /\ \/ /\ ops' = [ops EXCEPT ![r][i] = "fulfilled"]
          /\ context' = CustomEffectWrite(getArgs(selected[r].effects[i]), context)
       \/ /\ ops' = [ops EXCEPT ![r][i] = "rejected"]
          /\ context' = context
    /\ UNCHANGED <<api, rules, pc, queue, cache, batch, calls, results,
                   selected, current, invoked, built, dataLoader, others>>

\* an operation of the rule being executed has failed
effectExecuteAllRejects ==
  /\ pc = "effects"
  /\ current > 0
  /\ \E i \in 1..Len(ops[current]) : ops[current][i] = "rejected"
  /\ pc' = "rejected"
  /\ UNCHANGED <<api, rules, context, queue, cache, batch, calls, results,
                 selected, current, ops, invoked, built, dataLoader, others>>

\* a variant of effectExecuteAllResolves that resolves only after a rule
effectExecuteAllResolvesAfterRule ==
  /\ pc = "effects"
  /\ current = Len(selected)
  /\ current > 0
  /\ AllFulfilled(ops[current])
  /\ pc' = "resolved"
  /\ UNCHANGED <<api, rules, context, queue, cache, batch, calls, results,
                 selected, current, ops, invoked, built, dataLoader, others>>

\* the loop has ended
effectExecuteAllResolves ==
  /\ pc = "effects"
  /\ current = Len(selected)
  /\ current > 0 => AllFulfilled(ops[current])
  /\ pc' = "resolved"
  /\ UNCHANGED <<api, rules, context, queue, cache, batch, calls, results,
                 selected, current, ops, invoked, built, dataLoader, others>>

Next ==
  \/ conditionExecuteAll
  \/ dispatchBatch
  \/ resolverSettles
  \/ batchResolves
  \/ batchRejects
  \/ selectRules
  \/ executeRule
  \/ operationSettles
  \/ effectExecuteAllRejects
  \/ effectExecuteAllResolves

Spec == Init /\ [][Next]_vars

(***************************************************************************)
(* processRules under the scheduling of the event loop: a continuation     *)
(* that is ready (the next tick that dispatches the batch, the reaction to *)
(* a settled promise, the next turn of a loop) is run, and every promise   *)
(* that a resolver has returned settles.                                   *)
(***************************************************************************)
MaxLiveNodes == 3

LiveCollections ==
  UNION {{LabelAll(shape, 0,
                   [i \in 1..LeafCountAll(shape) |->
                      Rule(i, ConditionsOf(i, holds[i]), EffectsOf(i))]) :
            holds \in [1..LeafCountAll(shape) -> BOOLEAN]} :
         shape \in UNION {SeqsOf(n) : n \in 1..MaxLiveNodes}}

InitLive ==
  /\ api = "processRules"
  /\ rules \in LiveCollections
  /\ pc = "start"
  /\ selected = <<>>
  /\ Idle
  /\ second = NoCall
  /\ construction = NoConstruction
  /\ resolverCall = NoResolverCall

Fairness ==
  /\ WF_vars(conditionExecuteAll)
  /\ WF_vars(dispatchBatch)
  /\ WF_vars(resolverSettles)
  /\ WF_vars(batchResolves)
  /\ WF_vars(batchRejects)
  /\ WF_vars(selectRules)
  /\ WF_vars(executeRule)
  /\ WF_vars(operationSettles)
  /\ WF_vars(effectExecuteAllRejects)
  /\ WF_vars(effectExecuteAllResolves)

SpecLive == InitLive /\ [][Next]_vars /\ Fairness

(***************************************************************************)
(* ConditionExecutor.executeAll called on its own, on a batch of one or    *)
(* two rules.                                                              *)
(***************************************************************************)
MaxChildren == 3

PredicateFields ==
  {Predicate("always"), Predicate("never"), Predicate("someCondition"), Predicate("orphan")}

ComparisonFields ==
  {Comparison("greaterThan", "foo", 5),
   Field("greaterThan", <<Argument("value", Num(5)), Argument("path", Str("foo"))>>, <<>>),
   Comparison("greaterThan", "foo", 9)}

SelectionsOf(fields, n) == UNION {[1..k -> fields] : k \in 1..n}

FlatDocuments ==
  {Query(selections) : selections \in SelectionsOf(PredicateFields, MaxChildren)}
  \cup {Query(<<Field(name, <<>>, selections)>>) :
          name \in LogicalNames, selections \in SelectionsOf(PredicateFields, MaxChildren)}

NestedDocuments ==
  {Query(<<Field(outer, <<>>, <<Field(inner, <<>>, selections), field>>)>>) :
     outer \in LogicalNames, inner \in LogicalNames,
     selections \in [1..2 -> PredicateFields \ {Predicate("orphan")}],
     field \in PredicateFields}

SharedDocuments ==
  {Query(selections) :
     selections \in SelectionsOf(ComparisonFields \cup {Predicate("someCondition")}, 2)}

ConditionBatches ==
  {<<Rule(1, document, <<>>)>> :
     document \in FlatDocuments \cup NestedDocuments \cup SharedDocuments}
  \cup {<<Rule(1, one, <<>>), Rule(2, two, <<>>)>> :
          one \in SharedDocuments, two \in SharedDocuments}

InitConditions ==
  /\ api = "conditions"
  /\ rules \in ConditionBatches
  /\ pc = "start"
  /\ selected = <<>>
  /\ Idle
  /\ second = NoCall
  /\ construction = NoConstruction
  /\ resolverCall = NoResolverCall

NextConditions ==
  \/ conditionExecuteAll
  \/ dispatchBatch
  \/ resolverSettles
  \/ batchResolves
  \/ batchRejects

SpecConditions == InitConditions /\ [][NextConditions]_vars

(***************************************************************************)
(* EffectExecutor.executeAll called on its own, on every list of rules     *)
(* with at most MaxOps operations in all.                                  *)
(***************************************************************************)
MaxOps == 3

OperationFields ==
  {Operation("add", "foo", 4), Operation("multiply", "foo", 3),
   Operation("customEffect", "foo", 1), Field("orphanEffect", <<>>, <<>>)}

RECURSIVE EffectLists(_)
EffectLists(n) ==
  IF n = 0 THEN {<<>>}
  ELSE UNION {{<<effects>> \o rest :
                 effects \in [1..k -> OperationFields], rest \in EffectLists(n - k)} :
              k \in 1..n}

EffectBatches ==
  UNION {{[i \in 1..Len(list) |-> Rule(i, Always, list[i])] : list \in EffectLists(n)} :
         n \in 1..MaxOps}

InitEffects ==
  /\ api = "effects"
  /\ rules \in EffectBatches
  /\ pc = "effects"
  /\ selected = rules
  /\ Idle
  /\ second = NoCall
  /\ construction = NoConstruction
  /\ resolverCall = NoResolverCall

NextEffects ==
  \/ executeRule
  \/ operationSettles
  \/ effectExecuteAllRejects
  \/ effectExecuteAllResolves

SpecEffects == InitEffects /\ [][NextEffects]_vars

(***************************************************************************)
(* Rules with a metadata field.  _.omit(rule, ['effects', 'conditions']) is *)
(* a shallow copy: context.rule is a new object whose properties have the   *)
(* values of the rule's own, so an object that is the value of the field    *)
(* bar is one and the same object under the rule and under context.rule.    *)
(* The object is kept in the rule, and context.rule.bar is a reference to   *)
(* it.  The world is the context together with the caller's rules.          *)
(***************************************************************************)
Object(a, b) == [kind |-> "object", a |-> a, b |-> b]

SharedValue(position) == [kind |-> "reference", rule |-> position]

IsObject(v) == v.kind \in {"object", "reference"}

IsNil(v) == v.kind \in {"undefined", "null"}

MetadataRule(id, effects) ==
  [kind |-> "rule", id |-> id, conditions |-> Always, effects |-> effects,
   bar |-> Object(Num(1), Undefined)]

OmitShallow(rule, position) ==
  [kind |-> "object", id |-> rule.id, bar |-> SharedValue(position)]

\* the object a value is
Deref(world, v) == IF v.kind = "reference" THEN world.rules[v.rule].bar ELSE v

\* _.result(context, path)
MetadataResult(world, path) ==
  LET bar == Deref(world, world.context.rule.bar)
  IN CASE path = "foo" -> world.context.foo
       [] path = "rule.bar" -> world.context.rule.bar
       [] path = "rule.bar.a" -> (IF bar.kind = "object" THEN bar.a ELSE Undefined)
       [] path = "rule.bar.b" -> (IF bar.kind = "object" THEN bar.b ELSE Undefined)
       [] OTHER -> Undefined

\* _.set(context, path, value): the last key is assigned on the object the
\* path leads to, which is made when the value on the way is no object
MetadataSet(world, path, value) ==
  LET bar == world.context.rule.bar
      key == IF path = "rule.bar.a" THEN "a" ELSE "b"
      made == IF key = "a" THEN Object(value, Undefined) ELSE Object(Undefined, value)
  IN CASE path = "foo" -> [world EXCEPT !.context.foo = value]
       [] path = "rule.bar" -> [world EXCEPT !.context.rule.bar = value]
       [] path \in {"rule.bar.a", "rule.bar.b"} ->
            (IF bar.kind = "reference"
             THEN [world EXCEPT !.rules[bar.rule].bar[key] = value]
             ELSE IF bar.kind = "object"
             THEN [world EXCEPT !.context.rule.bar[key] = value]
             ELSE [world EXCEPT !.context.rule.bar = made])
       [] OTHER -> world

\* the outcome of a resolver: the world it leaves and the error it throws
None == [kind |-> "none"]

Done(world) == [world |-> world, error |-> None]

Failed(world, error) == [world |-> world, error |-> error]

\* JSON.parse of the literals the documents use; TypeError for a text that
\* is no JSON
JSONParse(text) ==
  CASE text = "2" -> Num(2)
    [] text = "0" -> Num(0)
    [] text = "null" -> Null
    [] text = "false" -> Bool(FALSE)
    [] text = "\"\"" -> Str("")
    [] text = "{\"a\":2}" -> Object(Num(2), Undefined)
    [] text = "{\"b\":2}" -> Object(Undefined, Num(2))
    [] OTHER -> TypeError

\* assertSingleValue and getValue
MetadataValue(value, valuePath, world) ==
  IF ~IsUndefined(value) /\ ~IsUndefined(valuePath) THEN Throw
  ELSE IF IsUndefined(value) /\ IsUndefined(valuePath) THEN Throw
  ELSE IF ~IsUndefined(value) THEN value
  ELSE MetadataResult(world, valuePath.s)

\* assertSingleValue and getParsedValue
MetadataParsedValue(value, valuePath, world) ==
  IF ~IsUndefined(value) /\ ~IsUndefined(valuePath) THEN Throw
  ELSE IF IsUndefined(value) /\ IsUndefined(valuePath) THEN Throw
  ELSE IF ~IsUndefined(valuePath) THEN MetadataResult(world, valuePath.s)
  ELSE JSONParse(value.s)

\* _.merge(object, source) assigns the defined values of the source to the
\* object
MergeInto(object, source) ==
  Object(IF IsUndefined(source.a) THEN object.a ELSE source.a,
         IF IsUndefined(source.b) THEN object.b ELSE source.b)

\* initial / val, for numbers of which the one divides the other
Quotient(initial, val) ==
  IF IsNumber(initial) /\ IsNumber(val) THEN Num(initial.n \div val.n) ELSE NaN

\* set
SetEffect(args, world) ==
  LET val == MetadataParsedValue(Arg(args, "value"), Arg(args, "valuePath"), world)
  IN IF val \in Errors THEN Failed(world, val)
     ELSE Done(MetadataSet(world, Arg(args, "path").s, val))

\* a variant of default that keeps an existing value only when it is truthy
DefaultEffectUnlessTruthy(args, world) ==
  LET val == MetadataParsedValue(Arg(args, "value"), Arg(args, "valuePath"), world)
      existing == MetadataResult(world, Arg(args, "path").s)
  IN IF val \in Errors THEN Failed(world, val)
     ELSE IF ToBoolean(existing) THEN Done(world)
     ELSE Done(MetadataSet(world, Arg(args, "path").s, val))

\* default
DefaultEffect(args, world) ==
  LET val == MetadataParsedValue(Arg(args, "value"), Arg(args, "valuePath"), world)
      existing == MetadataResult(world, Arg(args, "path").s)
  IN IF val \in Errors THEN Failed(world, val)
     ELSE IF ~IsUndefined(existing) THEN Done(world)
     ELSE Done(MetadataSet(world, Arg(args, "path").s, val))

\* a variant of divide that looks at the divisor after the write
DivideEffectWriteFirst(args, world) ==
  LET path == Arg(args, "path").s
      initial == MetadataResult(world, path)
      val == MetadataValue(Arg(args, "value"), Arg(args, "valuePath"), world)
  IN IF val = Throw THEN Failed(world, Throw)
     ELSE IF ~(IsNumber(initial) \/ initial = NaN) THEN Failed(world, TypeError)
     ELSE IF val = Num(0) THEN Failed(MetadataSet(world, path, NaN), RangeError)
     ELSE Done(MetadataSet(world, path, Quotient(initial, val)))

\* divide; NaN is a number for _.isNumber
DivideEffect(args, world) ==
  LET path == Arg(args, "path").s
      initial == MetadataResult(world, path)
      val == MetadataValue(Arg(args, "value"), Arg(args, "valuePath"), world)
  IN IF val = Throw THEN Failed(world, Throw)
     ELSE IF ~(IsNumber(initial) \/ initial = NaN) THEN Failed(world, TypeError)
     ELSE IF val = Num(0) THEN Failed(world, RangeError)
     ELSE Done(MetadataSet(world, path, Quotient(initial, val)))

\* merge: _.merge changes the object at the path, then the object is
\* assigned at the path
MergeEffect(args, world) ==
  LET path == Arg(args, "path").s
      val == MetadataParsedValue(Arg(args, "value"), Arg(args, "valuePath"), world)
      initial == MetadataResult(world, path)
      source == Deref(world, val)
  IN IF val \in Errors THEN Failed(world, val)
     ELSE IF ~IsObject(val) \/ (~IsNil(initial) /\ ~IsObject(initial))
     THEN Failed(world, TypeError)
     ELSE IF IsNil(initial) THEN Done(MetadataSet(world, path, val))
     ELSE IF initial.kind = "reference"
     THEN Done(MetadataSet(
                 [world EXCEPT !.rules[initial.rule].bar = MergeInto(@, source)],
                 path, initial))
     ELSE Done(MetadataSet(world, path, MergeInto(initial, source)))

\* add
AddEffect(args, world) ==
  LET path == Arg(args, "path").s
      initial == MetadataResult(world, path)
      val == MetadataValue(Arg(args, "value"), Arg(args, "valuePath"), world)
  IN IF val = Throw THEN Failed(world, Throw)
     ELSE IF ~IsNumber(initial) THEN Failed(world, TypeError)
     ELSE Done(MetadataSet(world, path,
                           IF IsNumber(val) THEN Num(initial.n + val.n) ELSE NaN))

\* defaultEffectResolvers[name](args, context)
BuiltInEffect(name, args, world) ==
  CASE name = "set" -> SetEffect(args, world)
    [] name = "default" -> DefaultEffect(args, world)
    [] name = "divide" -> DivideEffect(args, world)
    [] name = "merge" -> MergeEffect(args, world)
    [] OTHER -> AddEffect(args, world)

\* executeEffect for operations that all have a built-in resolver: each is
\* run to its end, in document order, also after one has thrown
RECURSIVE executeMetadataEffect(_, _, _)
executeMetadataEffect(effects, i, run) ==
  IF i > Len(effects) THEN run
  ELSE LET field == effects[i]
           after == BuiltInEffect(field.name, getArgs(field), run.world)
       IN executeMetadataEffect(effects, i + 1,
            [world |-> after.world,
             ops |-> Append(run.ops, IF after.error = None THEN "fulfilled"
                                     ELSE "rejected")])

JSONOperation(name, path, text) ==
  Field(name, <<Argument("path", Str(path)), Argument("value", Str(text))>>, <<>>)

MetadataOperations ==
  {JSONOperation("set", "rule.bar.a", "2"),
   JSONOperation("set", "rule.bar", "{\"a\":2}"),
   JSONOperation("set", "foo", "{b:2}"),
   JSONOperation("merge", "rule.bar", "{\"b\":2}"),
   JSONOperation("merge", "foo", "{\"b\":2}"),
   Operation("add", "rule.bar.a", 1),
   Operation("add", "foo", 4)}

RECURSIVE MetadataLists(_)
MetadataLists(n) ==
  IF n = 0 THEN {<<>>}
  ELSE UNION {{<<effects>> \o rest :
                 effects \in [1..k -> MetadataOperations], rest \in MetadataLists(n - k)} :
              k \in 1..n}

MetadataBatches ==
  UNION {{[i \in 1..Len(list) |-> MetadataRule(i, list[i])] : list \in MetadataLists(n)} :
         n \in 1..MaxOps}

\* EffectExecutor.executeAll on rules with metadata; the rules executeAll
\* walks are the caller's
InitMetadata ==
  /\ api = "metadata"
  /\ rules \in MetadataBatches
  /\ pc = "effects"
  /\ selected = rules
  /\ Idle
  /\ second = NoCall
  /\ construction = NoConstruction
  /\ resolverCall = NoResolverCall

\* one turn of the loop
executeMetadataRule ==
  /\ api = "metadata"
  /\ pc = "effects"
  /\ current < Len(selected)
  /\ current > 0 => AllFulfilled(ops[current])
  /\ LET position == current + 1
         rule == selected[position]
         world == [context |-> [context EXCEPT !.rule = OmitShallow(rule, position)],
                   rules |-> selected]
         run == executeMetadataEffect(rule.effects, 1, [world |-> world, ops |-> <<>>])
     IN /\ context' = run.world.context
        /\ rules' = run.world.rules
        /\ selected' = run.world.rules
        /\ ops' = Append(ops, run.ops)
  /\ current' = current + 1
  /\ UNCHANGED <<api, pc, queue, cache, batch, calls, results, invoked, built,
                 dataLoader, others>>

NextMetadata ==
  \/ executeMetadataRule
  \/ effectExecuteAllRejects
  \/ effectExecuteAllResolves

SpecMetadata == InitMetadata /\ [][NextMetadata]_vars

(***************************************************************************)
(* One call of a built-in resolver that takes value and valuePath.  Every  *)
(* such resolver reads its operand with getValue or getParsedValue, which  *)
(* both begin with assertSingleValue, before anything else of it can       *)
(* throw; greaterThan, lessThan, add and multiply are called whole, the     *)
(* others up to that read.                                                 *)
(***************************************************************************)
ValueConditions ==
  {"closeTo", "equalsNumber", "equalsObject", "equalsString", "greaterThan",
   "greaterThanOrEqual", "includesFloat", "includesObject", "includesString",
   "lessThan", "lessThanOrEqual", "matchesObject", "matchesRegex"}

ValueEffects ==
  {"add", "concat", "default", "divide", "filter", "max", "merge", "min",
   "multiply", "pull", "set", "subtract"}

\* element === val
StrictEquals(element, val) == element = val /\ element.kind # "NaN"

\* Array.prototype.find with the callback (element) => element === val: the
\* first such element, or undefined
Find(items, val) ==
  LET found == {i \in 1..Len(items) : StrictEquals(items[i], val)}
  IN IF found = {} THEN Undefined
     ELSE items[CHOOSE i \in found : \A j \in found : i <= j]

\* includesFloat and includesString: what the resolver returns
IncludesResolver(args, ctx) ==
  LET actual == Result(ctx, Arg(args, "path").s)
      val == getValue(Arg(args, "value"), Arg(args, "valuePath"), ctx)
  IN IF val = Throw THEN Throw
     ELSE IF ~IsArray(actual) THEN Bool(FALSE)
     ELSE Find(actual.items, val)

\* the resolver has read its operand and goes on
Proceeds == [kind |-> "proceeds"]

ResolverOutcome(name, args, ctx) ==
  IF name \in {"greaterThan", "lessThan"} THEN ConditionResolver(name, args, ctx)
  ELSE IF name \in {"includesFloat", "includesString"} THEN IncludesResolver(args, ctx)
  ELSE IF name \in SyncEffectResolvers THEN EffectResolver(name, args, ctx)
  ELSE IF getValue(Arg(args, "value"), Arg(args, "valuePath"), ctx) = Throw THEN Throw
  ELSE Proceeds

\* args objects: a path, and a value and a valuePath that may be missing
ArgsObjects ==
  {<<[k |-> "path", v |-> Str("foo")]>>
   \o (IF IsUndefined(value) THEN <<>> ELSE <<[k |-> "value", v |-> value]>>)
   \o (IF IsUndefined(valuePath) THEN <<>> ELSE <<[k |-> "valuePath", v |-> valuePath]>>) :
     value \in {Undefined, Num(0), Num(5)},
     valuePath \in {Undefined, Str("foo"), Str("rule.id"), Str("missing")}}

ResolverContexts ==
  {[foo |-> foo, rule |-> Undefined] : foo \in {Num(7), Str("a"), Undefined}}

ResolverCalls ==
  {[state |-> "called", name |-> name, args |-> args, context |-> ctx] :
     name \in ValueConditions \cup ValueEffects, args \in ArgsObjects,
     ctx \in ResolverContexts}

InitArguments ==
  /\ api = "resolver"
  /\ rules = <<>>
  /\ pc = "none"
  /\ selected = <<>>
  /\ Idle
  /\ second = NoCall
  /\ construction = NoConstruction
  /\ resolverCall \in ResolverCalls

\* the resolver runs: it returns or throws
callResolver ==
  /\ resolverCall.state = "called"
  /\ resolverCall' =
       [state |-> "returned", name |-> resolverCall.name, args |-> resolverCall.args,
        context |-> resolverCall.context,
        outcome |-> ResolverOutcome(resolverCall.name, resolverCall.args,
                                    resolverCall.context)]
  /\ UNCHANGED <<api, rules, context, pc, queue, cache, batch, calls, results,
                 selected, current, ops, invoked, built, dataLoader, second,
                 construction>>

NextArguments == callResolver

SpecArguments == InitArguments /\ [][NextArguments]_vars

(***************************************************************************)
(* One call of includesFloat or includesString on a context whose foo is   *)
(* an array of at most MaxMembers numbers and strings, or no array.        *)
(***************************************************************************)
MaxMembers == 2

Members == {Num(0), Num(5), Str(""), Str("a")}

MemberLists == UNION {[1..n -> Members] : n \in 0..MaxMembers}

IncludesContexts ==
  {[foo |-> foo, rule |-> Undefined] :
     foo \in {Arr(items) : items \in MemberLists} \cup {Undefined, Num(5), Str("a")}}

IncludesCalls ==
  {[state |-> "called", name |-> "includesFloat",
    args |-> <<[k |-> "path", v |-> Str("foo")], [k |-> "value", v |-> value]>>,
    context |-> ctx] :
     value \in {m \in Members : m.kind = "number"}, ctx \in IncludesContexts}
  \cup
  {[state |-> "called", name |-> "includesString",
    args |-> <<[k |-> "path", v |-> Str("foo")], [k |-> "value", v |-> value]>>,
    context |-> ctx] :
     value \in {m \in Members : m.kind = "string"}, ctx \in IncludesContexts}

InitIncludes ==
  /\ api = "includes"
  /\ rules = <<>>
  /\ pc = "none"
  /\ selected = <<>>
  /\ Idle
  /\ second = NoCall
  /\ construction = NoConstruction
  /\ resolverCall \in IncludesCalls

SpecIncludes == InitIncludes /\ [][NextArguments]_vars

(***************************************************************************)
(* A built-in effect called on a context, up to MaxApplications times with *)
(* the same arguments.  The history is the context before the first call   *)
(* and after each call, the errors are what each call threw.               *)
(***************************************************************************)
MaxApplications == 2

BuiltInNames == {"default", "divide", "merge", "set"}

\* divide takes a number, the others the text of a JSON value
BuiltInValues(name) ==
  IF name = "divide" THEN {Undefined, Num(0), Num(2)}
  ELSE {Undefined, Str("2"), Str("null"), Str("{\"b\":2}"), Str("{b:2}")}

BuiltInArgs(name) ==
  {<<[k |-> "path", v |-> Str("foo")]>>
   \o (IF IsUndefined(value) THEN <<>> ELSE <<[k |-> "value", v |-> value]>>)
   \o (IF IsUndefined(valuePath) THEN <<>> ELSE <<[k |-> "valuePath", v |-> valuePath]>>) :
     value \in BuiltInValues(name),
     valuePath \in {Undefined, Str("foo"), Str("missing")}}

BuiltInContexts ==
  {[foo |-> v, rule |-> Undefined] :
     v \in {Undefined, Null, Bool(FALSE), Num(0), Num(16), Str(""),
            Object(Num(1), Undefined)}}

BuiltInCalls ==
  UNION {{[state |-> "called", name |-> name, args |-> args, context |-> ctx,
           history |-> <<ctx>>, errors |-> <<>>] :
            args \in BuiltInArgs(name), ctx \in BuiltInContexts} :
         name \in BuiltInNames}

InitBuiltIn ==
  /\ api = "builtin"
  /\ rules = <<>>
  /\ pc = "none"
  /\ selected = <<>>
  /\ Idle
  /\ second = NoCall
  /\ construction = NoConstruction
  /\ resolverCall \in BuiltInCalls

\* the resolver is called on the context the calls before it have left
callBuiltIn ==
  /\ api = "builtin"
  /\ Len(resolverCall.errors) < MaxApplications
  /\ LET after == BuiltInEffect(resolverCall.name, resolverCall.args,
                                [context |-> resolverCall.context, rules |-> <<>>])
     IN resolverCall' =
          [resolverCall EXCEPT !.context = after.world.context,
                               !.history = Append(@, after.world.context),
                               !.errors = Append(@, after.error)]
  /\ UNCHANGED <<api, rules, context, pc, queue, cache, batch, calls, results,
                 selected, current, ops, invoked, built, dataLoader, second,
                 construction>>

NextBuiltIn == callBuiltIn

SpecBuiltIn == InitBuiltIn /\ [][NextBuiltIn]_vars

(***************************************************************************)
(* processRules on lists of at most MaxRules rules whose conditions or      *)
(* effects may be text that does not parse.                                 *)
(***************************************************************************)
MaxRules == 3

DocumentConditions == {Always, SomeCondition, Invalid}

DocumentEffects ==
  {<<Operation("add", "foo", 1)>>, <<Operation("customEffect", "foo", 1)>>, <<Invalid>>}

DocumentCollections ==
  UNION {{[i \in 1..n |-> Rule(i, conditions[i], effects[i])] :
            conditions \in [1..n -> DocumentConditions],
            effects \in [1..n -> DocumentEffects]} :
         n \in 1..MaxRules}

InitDocuments ==
  /\ api = "processRules"
  /\ rules \in DocumentCollections
  /\ pc = "start"
  /\ selected = <<>>
  /\ Idle
  /\ second = NoCall
  /\ construction = NoConstruction
  /\ resolverCall = NoResolverCall

SpecDocuments == InitDocuments /\ [][Next]_vars

(***************************************************************************)
(* Two calls of executeAll on one ConditionExecutor, each with its own     *)
(* rules and context, one after the other or overlapping.  The first call  *)
(* is in the variables of a call, the second in the record second.  The    *)
(* executor has one field dataLoader, which each call assigns.             *)
(***************************************************************************)
CallFields ==
  {Comparison("greaterThan", "foo", 5), Predicate("someCondition"), Predicate("always")}

CallBatches ==
  {<<Rule(1, Query(selections), <<>>)>> : selections \in SelectionsOf(CallFields, 2)}

SecondContext == [foo |-> Num(3), rule |-> Undefined]

InitCalls ==
  /\ api = "conditions"
  /\ rules \in CallBatches
  /\ pc = "start"
  /\ selected = <<>>
  /\ Idle
  /\ \E ruleList \in CallBatches :
       second = [pc |-> "start", rules |-> ruleList, context |-> SecondContext,
                 queue |-> <<>>, cache |-> <<>>, batch |-> "none",
                 calls |-> <<>>, results |-> <<>>]
  /\ construction = NoConstruction
  /\ resolverCall = NoResolverCall

secondUnchanged ==
  UNCHANGED <<api, rules, context, pc, queue, cache, batch, calls, results,
              selected, current, ops, invoked, built, construction, resolverCall>>

\* the second call of executeAll up to its first suspension
secondExecuteAll ==
  /\ second.pc = "start"
  /\ LET loader == LoadAll(NewDataLoader(ThisDataLoader), LoadsOfRules(second.rules))
     IN second' = [second EXCEPT
                     !.queue = loader.queue,
                     !.cache = loader.cache,
                     !.batch = IF loader.queue = <<>> THEN "none" ELSE "queued",
                     !.pc = IF \E i \in 1..Len(second.rules) :
                                 ~ConditionsParse(second.rules[i])
                            THEN "rejected"
                            ELSE IF second.rules # <<>> THEN "conditions"
                            ELSE "resolved"]
  /\ dataLoader' = 2
  /\ secondUnchanged

\* the DataLoader of the second call dispatches its batch, on the context of
\* the second call
secondDispatchBatch ==
  /\ second.pc # "none"
  /\ second.batch = "queued"
  /\ second' = [second EXCEPT
                  !.cache = BatchFrom(second.cache, second.queue, second.context, 1),
                  !.context = ContextAfterBatch(second.queue, second.context, 1),
                  !.calls = second.calls \o second.queue,
                  !.queue = <<>>,
                  !.batch = "dispatched"]
  /\ UNCHANGED dataLoader
  /\ secondUnchanged

secondResolverSettles ==
  /\ second.pc # "none"
  /\ \E cacheKey \in DOMAIN second.cache, value \in CustomValues :
       /\ second.cache[cacheKey].state = "pending"
       /\ second' = [second EXCEPT
                       !.cache[cacheKey] = [state |-> "settled", value |-> value]]
  /\ UNCHANGED dataLoader
  /\ secondUnchanged

secondBatchResolves ==
  /\ second.pc # "none"
  /\ second.batch = "dispatched"
  /\ \A cacheKey \in DOMAIN second.cache :
       second.cache[cacheKey].state = "settled" /\ second.cache[cacheKey].value # Throw
  /\ second' = [second EXCEPT
                  !.batch = "resolved",
                  !.results = IF second.pc = "rejected" THEN second.results
                              ELSE [i \in 1..Len(second.rules) |->
                                      validateConditions(second.rules[i].conditions,
                                        [cacheKey \in DOMAIN second.cache |->
                                           ToBoolean(second.cache[cacheKey].value)])],
                  !.pc = IF second.pc = "rejected" THEN second.pc ELSE "resolved"]
  /\ UNCHANGED dataLoader
  /\ secondUnchanged

secondBatchRejects ==
  /\ second.pc # "none"
  /\ second.batch = "dispatched"
  /\ \E cacheKey \in DOMAIN second.cache :
       second.cache[cacheKey].state = "settled" /\ second.cache[cacheKey].value = Throw
  /\ second' = [second EXCEPT !.batch = "rejected", !.pc = "rejected"]
  /\ UNCHANGED dataLoader
  /\ secondUnchanged

NextCalls ==
  \/ conditionExecuteAll
  \/ dispatchBatch
  \/ resolverSettles
  \/ batchResolves
  \/ batchRejects
  \/ secondExecuteAll
  \/ secondDispatchBatch
  \/ secondResolverSettles
  \/ secondBatchResolves
  \/ secondBatchRejects

SpecCalls == InitCalls /\ [][NextCalls]_vars

(***************************************************************************)
(* The constructor of an executor.  The custom fields are the fields       *)
(* declared in the config's fields string, each with the kind and name of  *)
(* its type; the custom resolvers are the keys of the config's resolvers   *)
(* object, each with a function or with undefined.                         *)
(***************************************************************************)
CustomNames == <<"isStarPupil", "someCondition", "giveGoldStar">>

\* "Boolean!" is a NonNullType node; "Boolean" and "Void" are NamedType nodes
FieldTypes == {[kind |-> "NonNullType", name |-> "Boolean"],
               [kind |-> "NamedType", name |-> "Boolean"],
               [kind |-> "NamedType", name |-> "Void"]}

Function == [kind |-> "function"]

Absent == [kind |-> "absent"]

RECURSIVE Chosen(_, _)
\* the entries of the names that choice gives a value, in the order of names
Chosen(names, choice) ==
  IF Len(names) = 0 THEN <<>>
  ELSE (IF choice[names[1]] = Absent THEN <<>>
        ELSE <<[k |-> names[1], v |-> choice[names[1]]]>>)
       \o Chosen(Tail(names), choice)

FieldDeclarations ==
  {Chosen(CustomNames, choice) :
     choice \in [{CustomNames[i] : i \in 1..Len(CustomNames)} -> FieldTypes \cup {Absent}]}

ResolverMaps ==
  {Chosen(CustomNames, choice) :
     choice \in [{CustomNames[i] : i \in 1..Len(CustomNames)} ->
                   {Function, Undefined, Absent}]}

\* assertValidFields: a field whose type is a named type other than typeName
assertValidFields(fields, typeName) ==
  \A i \in 1..Len(fields) :
    ~(fields[i].v.kind = "NamedType" /\ fields[i].v.name # typeName)

\* assertValidResolvers: every field has a truthy resolver, and every key of
\* resolvers names a field
assertValidResolvers(fields, resolvers) ==
  /\ \A i \in 1..Len(fields) : Arg(resolvers, fields[i].k) = Function
  /\ \A j \in 1..Len(resolvers) : \E i \in 1..Len(fields) : fields[i].k = resolvers[j].k

\* the constructor: the assertions are made only for a fields string that is
\* not empty
Construct(fields, resolvers) ==
  IF Len(fields) > 0
     /\ ~(assertValidFields(fields, "Boolean") /\ assertValidResolvers(fields, resolvers))
  THEN "failed"
  ELSE "constructed"

InitConstruct ==
  /\ api = "constructor"
  /\ rules = <<>>
  /\ pc = "none"
  /\ selected = <<>>
  /\ Idle
  /\ second = NoCall
  /\ resolverCall = NoResolverCall
  /\ \E fields \in FieldDeclarations, resolvers \in ResolverMaps :
       construction = [state |-> "new", fields |-> fields, resolvers |-> resolvers]

construct ==
  /\ construction.state = "new"
  /\ construction' =
       [construction EXCEPT
          !.state = Construct(construction.fields, construction.resolvers)]
  /\ UNCHANGED <<api, rules, context, pc, queue, cache, batch, calls, results,
                 selected, current, ops, invoked, built, dataLoader, second,
                 resolverCall>>

NextConstruct == construct

SpecConstruct == InitConstruct /\ [][NextConstruct]_vars

(***************************************************************************)
(* Properties.                                                             *)
(***************************************************************************)
Range(seq) == {seq[i] : i \in 1..Len(seq)}

\* the numbers of the rules under a node of the rule collection
RECURSIVE IdsOf(_)
IdsOf(node) ==
  IF IsArray(node) THEN UNION {IdsOf(node.items[k]) : k \in 1..Len(node.items)}
  ELSE {node.id}

AllIds == UNION {IdsOf(rules[g]) : g \in 1..Len(rules)}

\* the top-level element a rule descends from, and whether it is an array
TopOf(id) == CHOOSE g \in 1..Len(rules) : id \in IdsOf(rules[g])
InRuleSet(id) == IsArray(rules[TopOf(id)])

RECURSIVE RuleById(_, _)
RuleById(node, id) ==
  IF ~IsArray(node) THEN node
  ELSE RuleById(node.items[CHOOSE k \in 1..Len(node.items) : id \in IdsOf(node.items[k])], id)

\* the predicate occurrences of a document
RECURSIVE PredicatesOf(_)
PredicatesOf(field) ==
  IF field.kind = "Field" /\ field.name \notin LogicalNames THEN {field}
  ELSE UNION {PredicatesOf(field.selections[i]) : i \in 1..Len(field.selections)}

ArgumentMap(field) == {<<a.name, a.value>> : a \in Range(field.arguments)}

\* the resolver calls made for the name and argument map of a predicate
CallsFor(field) ==
  {i \in 1..Len(calls) :
     /\ calls[i].name = field.name
     /\ {<<e.k, e.v>> : e \in Range(calls[i].args)} = ArgumentMap(field)}

\* what the resolver call made for a predicate returned, as a boolean
Returned(field) ==
  ToBoolean(cache[cacheKeyFn(calls[CHOOSE i \in CallsFor(field) : TRUE])].value)

\* the reference semantics of a document, from the values of its predicates
RECURSIVE Reference(_, _)
Reference(field, value) ==
  IF field.kind = "Field" /\ field.name \notin LogicalNames THEN value[field]
  ELSE LET n == Len(field.selections)
           t == Cardinality({i \in 1..n : Reference(field.selections[i], value)})
       IN CASE field.name = "or" -> t >= 1
            [] field.name = "xor" -> t = 1
            [] field.name = "not" -> t < n
            [] OTHER -> t = n

\* the value of a rule's own conditions, from what the resolvers returned
OwnResult(id) ==
  LET conditions == RuleById(Arr(rules), id).conditions
  IN Reference(conditions, [f \in PredicatesOf(conditions) |-> Returned(f)])

\* the selection policy: the rule's own conditions are true and, in a rule
\* set, no earlier rule of the set is selected
RECURSIVE ShouldFire(_)
ShouldFire(id) ==
  /\ OwnResult(id)
  /\ InRuleSet(id) =>
       \A j \in 1..(id - 1) : TopOf(j) = TopOf(id) => ~ShouldFire(j)

InvokedIds == {call.rule : call \in Range(invoked)}

\* C1: when processRules resolves, the rules whose effects were executed are
\* exactly the rules whose own conditions are true and that are not preceded,
\* in the same top-level array, by a selected rule.
C1_FiresIffSelected ==
  (api = "processRules" /\ pc = "resolved") =>
    \A id \in AllIds : (id \in InvokedIds) <=> ShouldFire(id)

\* C2: the effects of the rules are executed in the depth-first order of the
\* rule collection.
C2_DeclarationOrder ==
  api = "processRules" =>
    \A a \in 1..Len(invoked) : \A b \in 1..Len(invoked) :
      a < b => invoked[a].rule <= invoked[b].rule

\* the value of a rule's conditions on the context the caller passed
InitialResult(id) ==
  LET conditions == RuleById(Arr(rules), id).conditions
  IN Reference(conditions,
       [f \in PredicatesOf(conditions) |->
          IF f.name \in AsyncConditionResolvers THEN Returned(f)
          ELSE ToBoolean(ConditionResolver(f.name, getArgs(f), InitialContext))])

\* C3: when the first effect resolver is invoked, every condition resolver
\* has returned and every rule's result is final, and it is the value of the
\* rule's conditions on the context as the caller passed it.
C3_ConditionsBeforeEffects ==
  (api = "processRules" /\ invoked # <<>>) =>
    /\ batch = "resolved"
    /\ \A cacheKey \in DOMAIN cache : cache[cacheKey].state = "settled"
    /\ \A id \in AllIds : results[id] = InitialResult(id)

\* C3 witness: an effect has changed foo so that a condition that was true of
\* the initial context is false of the current one, and the rule of that
\* condition has fired after that effect.
C3_Witness ==
  /\ api = "processRules"
  /\ pc = "resolved"
  /\ context.foo.n >= 8
  /\ \E b \in 2..Len(invoked) :
       RuleById(Arr(rules), invoked[b].rule).conditions = FooIsSmall
  /\ "someCondition:{}" \in DOMAIN cache

\* C7: of the rules nested anywhere inside one top-level array, at most one
\* has its effects executed.
C7_AtMostOnePerSet ==
  api = "processRules" =>
    \A g \in 1..Len(rules) :
      IsArray(rules[g]) =>
        /\ Cardinality(InvokedIds \cap IdsOf(rules[g])) <= 1
        /\ Cardinality({k \in 1..Len(selected) : selected[k].id \in IdsOf(rules[g])}) <= 1

\* C7 witness: a top-level array with a nested array in it and two rules whose
\* conditions are true; one of them was executed.
C7_Witness ==
  /\ api = "processRules"
  /\ pc = "resolved"
  /\ \E g \in 1..Len(rules) :
       /\ IsArray(rules[g])
       /\ \E k \in 1..Len(rules[g].items) : IsArray(rules[g].items[k])
       /\ Cardinality({id \in IdsOf(rules[g]) : OwnResult(id)}) >= 2
       /\ Cardinality(InvokedIds \cap IdsOf(rules[g])) = 1

\* C8: no operation of a rule whose conditions are false is invoked, and when
\* the conditions of every rule are false processRules resolves with the
\* context as the caller passed it.
C8_FalseNeverFires ==
  api = "processRules" =>
    /\ \A id \in InvokedIds : OwnResult(id)
    /\ (pc = "resolved" /\ \A id \in AllIds : ~OwnResult(id)) => context = InitialContext

(***************************************************************************)
(* Properties of ConditionExecutor.executeAll.                             *)
(***************************************************************************)
AllPredicates == UNION {PredicatesOf(rules[i].conditions) : i \in 1..Len(rules)}

KeyOf(field) == cacheKeyFn([name |-> field.name, args |-> getArgs(field)])

\* C4: once the batch is dispatched, exactly one resolver call has been made
\* for the name and argument map of every predicate occurrence of the batch,
\* and the promise each occurrence waits for is the promise of that call.
C4_OneCallPerKey ==
  api = "conditions" =>
    /\ batch \in {"none", "queued"} => calls = <<>>
    /\ batch \in {"dispatched", "resolved", "rejected"} =>
         \A f \in AllPredicates :
           /\ Cardinality(CallsFor(f)) = 1
           /\ \A i \in CallsFor(f) : cacheKeyFn(calls[i]) = KeyOf(f)

\* C4 witness: two rules with four occurrences of one comparison, written
\* with its arguments in both orders, and one resolver call.
C4_Witness ==
  /\ api = "conditions"
  /\ pc = "resolved"
  /\ Len(rules) = 2
  /\ Len(LoadsOfRules(rules)) = 4
  /\ Cardinality(AllPredicates) = 2
  /\ Len(calls) = 1
  /\ calls[1].name = "greaterThan"

\* C9: the result of every document is its reference value: the root and
\* `and` are true iff all children are, `or` iff at least one is, `xor` iff
\* exactly one is, `not` iff not all are.
C9_ReferenceSemantics ==
  (api = "conditions" /\ pc = "resolved") =>
    \A i \in 1..Len(rules) :
      results[i] = Reference(rules[i].conditions, [f \in AllPredicates |-> Returned(f)])

\* C9 witness: an `xor` of three children that are all true is false.
C9_Witness ==
  /\ api = "conditions"
  /\ pc = "resolved"
  /\ Len(rules) = 1
  /\ Len(rules[1].conditions.selections) = 1
  /\ LET field == rules[1].conditions.selections[1]
     IN /\ field.name = "xor"
        /\ Len(field.selections) = 3
        /\ \A k \in 1..3 : Returned(field.selections[k])
  /\ results = <<FALSE>>

HasResolver(field) == field.name \in ConditionResolvers

\* C10: a predicate without a resolver resolves to false and never fails the
\* batch, and the result of a document is its reference value with false for
\* such a predicate.
C10_MissingResolverIsFalse ==
  api = "conditions" =>
    /\ batch \in {"dispatched", "resolved", "rejected"} =>
         \A f \in AllPredicates :
           ~HasResolver(f) =>
             /\ cache[KeyOf(f)].state = "settled"
             /\ cache[KeyOf(f)].value # Throw
    /\ batch = "rejected" =>
         \E f \in AllPredicates : HasResolver(f) /\ cache[KeyOf(f)].value = Throw
    /\ pc = "resolved" =>
         \A i \in 1..Len(rules) :
           results[i] = Reference(rules[i].conditions,
                          [f \in AllPredicates |-> HasResolver(f) /\ Returned(f)])

\* C10 witness: `not { orphan }` has resolved to true.
C10_Witness ==
  /\ api = "conditions"
  /\ pc = "resolved"
  /\ rules[1].conditions = Query(<<Field("not", <<>>, <<Predicate("orphan")>>)>>)
  /\ results = <<TRUE>>

(***************************************************************************)
(* Properties of EffectExecutor.executeAll.                                *)
(***************************************************************************)
\* the value at foo after the fulfilled operations of a rule: the built-in
\* operations in document order, then the writes of the custom ones
RECURSIVE AfterOperations(_, _, _, _)
AfterOperations(effects, states, i, foo) ==
  IF i > Len(effects) THEN foo
  ELSE LET field == effects[i]
           value == ArgumentValue(field.arguments, "value")
       IN AfterOperations(effects, states, i + 1,
            IF i > Len(states) \/ states[i] # "fulfilled" THEN foo
            ELSE IF field.name = "add" THEN foo + value.n
            ELSE IF field.name = "multiply" THEN foo * value.n
            ELSE foo)

RECURSIVE AfterCustom(_, _, _, _)
AfterCustom(effects, states, i, foo) ==
  IF i > Len(effects) THEN foo
  ELSE AfterCustom(effects, states, i + 1,
         IF i <= Len(states) /\ states[i] = "fulfilled" /\ effects[i].name = "customEffect"
         THEN foo + ArgumentValue(effects[i].arguments, "value").n
         ELSE foo)

AfterRule(effects, states, foo) ==
  AfterCustom(effects, states, 1, AfterOperations(effects, states, 1, foo))

\* the fold of the first n rules over foo, in array order
RECURSIVE AfterRules(_, _)
AfterRules(n, foo) ==
  IF n = 0 THEN foo
  ELSE AfterRule(selected[n].effects, ops[n], AfterRules(n - 1, foo))

\* C5: a rule is started only when every operation of the rule before it is
\* fulfilled, the resolvers are invoked in array order of the rules, and when
\* executeAll resolves foo is the fold of the rules' effects in array order.
C5_RulesOneAfterAnother ==
  api = "effects" =>
    /\ \A r \in 1..(Len(ops) - 1) : AllFulfilled(ops[r])
    /\ \A a \in 1..Len(invoked) : \A b \in 1..Len(invoked) :
         a < b => invoked[a].position <= invoked[b].position
    /\ pc = "resolved" =>
         /\ Len(ops) = Len(rules)
         /\ \A r \in 1..Len(ops) : AllFulfilled(ops[r])
         /\ context.foo = Num(AfterRules(Len(rules), InitialContext.foo.n))

\* C5 witness: add 4 and then multiply by 3 on 7 has given 33.
C5_Witness ==
  /\ api = "effects"
  /\ pc = "resolved"
  /\ Len(rules) = 2
  /\ rules[1].effects = <<Operation("add", "foo", 4)>>
  /\ rules[2].effects = <<Operation("multiply", "foo", 3)>>
  /\ context.foo = Num(33)

HasRejected(states) == \E i \in 1..Len(states) : states[i] = "rejected"

\* C6: a rule with a failed operation is the last rule started and executeAll
\* does not resolve; once executeAll has rejected, no resolver of a later rule
\* has been invoked and foo is what the rules before left, changed only by
\* the fulfilled operations of the failing rule.
C6_FailureStopsLaterRules ==
  api = "effects" =>
    /\ \A r \in 1..Len(ops) : HasRejected(ops[r]) => (r = Len(ops) /\ pc # "resolved")
    /\ pc = "rejected" =>
         /\ HasRejected(ops[current])
         /\ Len(ops) = current
         /\ \A call \in Range(invoked) : call.position <= current
         /\ \A r \in 1..(current - 1) : AllFulfilled(ops[r])
         /\ context.foo = Num(AfterRules(current, InitialContext.foo.n))

\* C6 witness: the second of three rules has failed, the first rule's add is
\* applied and the third rule was not started.
C6_Witness ==
  /\ api = "effects"
  /\ pc = "rejected"
  /\ Len(rules) = 3
  /\ current = 2
  /\ rules[1].effects = <<Operation("add", "foo", 4)>>
  /\ context.foo = Num(11)
  /\ \A call \in Range(invoked) : call.position = 1

\* C11: an operation without a resolver is rejected, its arguments are not
\* built and nothing is invoked for it; its rule is the last one started and
\* executeAll does not resolve: all it can still do is reject.
C11_MissingEffectResolverRejects ==
  api = "effects" =>
    \A r \in 1..Len(ops) : \A i \in 1..Len(selected[r].effects) :
      selected[r].effects[i].name \notin EffectResolvers =>
        /\ ops[r][i] = "rejected"
        /\ \A k \in 1..Len(built) : ~(built[k].position = r /\ built[k].op = i)
        /\ \A k \in 1..Len(invoked) : ~(invoked[k].position = r /\ invoked[k].op = i)
        /\ r = Len(ops)
        /\ pc \in {"effects", "rejected"}
        /\ pc = "effects" => (current = r /\ HasRejected(ops[current]))

\* C11 witness: a rule of an add and an operation without a resolver has
\* rejected executeAll; the add was made and nothing else was called.
C11_Witness ==
  /\ api = "effects"
  /\ pc = "rejected"
  /\ Len(rules) = 1
  /\ rules[1].effects = <<Operation("add", "foo", 4), Field("orphanEffect", <<>>, <<>>)>>
  /\ context.foo = Num(11)
  /\ Len(invoked) = 1
  /\ built = <<[position |-> 1, op |-> 1]>>

\* C12: a built-in resolver that takes value and valuePath fails with the
\* error of assertSingleValue exactly when both or neither of them is in its
\* args; with exactly one of them it does not fail with that error.
C12_ExactlyOneOfValueAndValuePath ==
  (api = "resolver" /\ resolverCall.state = "returned") =>
    LET hasValue == ~IsUndefined(Arg(resolverCall.args, "value"))
        hasValuePath == ~IsUndefined(Arg(resolverCall.args, "valuePath"))
    IN (resolverCall.outcome = Throw) <=> (hasValue <=> hasValuePath)

\* C12 witness: add with both a value and a valuePath, on a context whose
\* value at the path is no number, has failed with the error of
\* assertSingleValue.
C12_Witness ==
  /\ api = "resolver"
  /\ resolverCall.state = "returned"
  /\ resolverCall.name = "add"
  /\ Arg(resolverCall.args, "value") = Num(5)
  /\ Arg(resolverCall.args, "valuePath") = Str("foo")
  /\ resolverCall.context.foo = Str("a")
  /\ resolverCall.outcome = Throw

\* C13: when a resolver has thrown, a tree none of whose predicates has
\* thrown, and all of whose predicates have returned, is fulfilled with its
\* own result.
C13_OtherTreesUnaffected ==
  (api = "conditions" /\ batch = "rejected") =>
    \A i \in 1..Len(rules) :
      (\A f \in PredicatesOf(rules[i].conditions) :
         cache[KeyOf(f)].state = "settled" /\ cache[KeyOf(f)].value # Throw)
      => Tree(i) = "fulfilled"

\* C14: when the conditions or the effects of a rule do not parse, no
\* condition resolver and no effect resolver is ever invoked and the context
\* stays as the caller passed it.
C14_InvalidTextAbortsBeforeEvaluation ==
  (api = "processRules"
   /\ \E i \in 1..Len(flattenDeep(rules)) :
        ~ConditionsParse(flattenDeep(rules)[i]) \/ ~EffectsParse(flattenDeep(rules)[i]))
  => (calls = <<>> /\ invoked = <<>> /\ context = InitialContext)

\* the first call, as a record like the second
FirstCall ==
  [pc |-> pc, rules |-> rules, context |-> context, queue |-> queue, cache |-> cache,
   batch |-> batch, calls |-> calls, results |-> results]

KeysOfCall(call) ==
  {KeyOf(f) : f \in UNION {PredicatesOf(call.rules[i].conditions) : i \in 1..Len(call.rules)}}

\* a call resolves its own keys: each distinct key of its rules is in its own
\* batch once and, after the dispatch, was resolved by its own resolver call
\* on its own context
OwnEvaluation(call) ==
  call.pc \notin {"none", "start"} =>
    /\ DOMAIN call.cache = KeysOfCall(call)
    /\ {cacheKeyFn(k) : k \in Range(call.queue) \cup Range(call.calls)} = KeysOfCall(call)
    /\ Len(call.queue) + Len(call.calls) = Cardinality(KeysOfCall(call))
    /\ call.batch = "queued" => call.calls = <<>>
    /\ call.batch # "queued" => call.queue = <<>>
    /\ \A k \in Range(call.calls) :
         k.name \in SyncConditionResolvers =>
           call.cache[cacheKeyFn(k)] =
             [state |-> "settled", value |-> ConditionResolver(k.name, k.args, call.context)]
    /\ call.pc = "resolved" =>
         \A i \in 1..Len(call.rules) :
           call.results[i] =
             Reference(call.rules[i].conditions,
                       [f \in PredicatesOf(call.rules[i].conditions) |->
                          ToBoolean(call.cache[KeyOf(f)].value)])

\* C15: of two calls of executeAll on one executor, each has its own cache:
\* each call resolves every distinct key of its rules itself, on its own
\* context, and gets its results from those resolutions.
C15_CacheOwnedByCall ==
  (api = "conditions" /\ second.pc # "none") =>
    (OwnEvaluation(FirstCall) /\ OwnEvaluation(second))

\* C15 witness: two overlapping calls with the same conditions, both waiting
\* for someCondition; greaterThan is true on the context of the first call
\* and false on the context of the second.
C15_Witness ==
  /\ api = "conditions"
  /\ second.pc = "conditions"
  /\ pc = "conditions"
  /\ rules = second.rules
  /\ batch = "dispatched"
  /\ second.batch = "dispatched"
  /\ "someCondition:{}" \in DOMAIN cache
  /\ cache["someCondition:{}"].state = "pending"
  /\ second.cache["someCondition:{}"].state = "pending"
  /\ \E k \in Range(calls) :
       /\ k.name = "greaterThan"
       /\ cache[cacheKeyFn(k)].value = Bool(TRUE)
       /\ second.cache[cacheKeyFn(k)].value = Bool(FALSE)

\* C16: an executor is constructed only if the names of the declared custom
\* fields are the names of the supplied resolvers.
C16_FieldsAndResolversMatch ==
  (api = "constructor" /\ construction.state = "constructed") =>
    {construction.fields[i].k : i \in 1..Len(construction.fields)}
    = {construction.resolvers[j].k : j \in 1..Len(construction.resolvers)}

HasPending(states) == \E i \in 1..Len(states) : states[i] = "pending"

\* C17: every resolver is invoked with the context's rule key holding its own
\* rule without conditions and effects, and as long as an operation of a rule
\* is pending, also after executeAll has rejected, the key still holds that
\* rule's metadata.
C17_OwnRuleMetadata ==
  api = "effects" =>
    /\ \A k \in 1..Len(invoked) :
         invoked[k].metadata = Omit(selected[invoked[k].position])
    /\ \A r \in 1..Len(ops) : HasPending(ops[r]) => context.rule = Omit(selected[r])
    /\ (current > 0 /\ pc = "effects") => context.rule = Omit(selected[current])

\* C17 witness: the second rule's custom effect is still pending after its
\* sibling without a resolver has rejected executeAll; the first rule's add
\* was called with the first rule's metadata, the custom effect with the
\* second's.
C17_Witness ==
  /\ api = "effects"
  /\ pc = "rejected"
  /\ Len(ops) = 2
  /\ ops[2] = <<"pending", "rejected">>
  /\ Len(invoked) = 2
  /\ invoked[1].metadata = [kind |-> "object", id |-> 1]
  /\ invoked[2].metadata = [kind |-> "object", id |-> 2]
  /\ context.rule = [kind |-> "object", id |-> 2]

\* C18: when executeAll has resolved, the context has no rule entry that the
\* caller did not supply.
C18_MetadataNotPersistent ==
  (api = "effects" /\ pc = "resolved") => context.rule = InitialContext.rule

\* C19: when a rule is started each of its operations has a promise and each
\* operation with a resolver has been invoked, whatever the state of the
\* operations before it; the next rule is started, and executeAll resolves,
\* only when no operation of the rule is pending.
C19_AllStartedThenJoined ==
  api = "effects" =>
    /\ \A r \in 1..Len(ops) :
         /\ Len(ops[r]) = Len(selected[r].effects)
         /\ \A i \in 1..Len(selected[r].effects) :
              selected[r].effects[i].name \in EffectResolvers =>
                \E k \in 1..Len(invoked) : invoked[k].position = r /\ invoked[k].op = i
    /\ \A r \in 1..(Len(ops) - 1) : ~HasPending(ops[r])
    /\ pc = "resolved" => \A r \in 1..Len(ops) : ~HasPending(ops[r])

\* C19 witness: the custom effect is pending and the add after it in the
\* same rule has already been made.
C19_Witness ==
  /\ api = "effects"
  /\ pc = "effects"
  /\ Len(rules) = 1
  /\ rules[1].effects = <<Operation("customEffect", "foo", 1), Operation("add", "foo", 4)>>
  /\ ops = <<(<<"pending", "fulfilled">>)>>
  /\ Len(invoked) = 2
  /\ context.foo = Num(11)

\* the cache keys of the predicates of the batch
AllKeys == {KeyOf(f) : f \in AllPredicates}

\* C20: the walk of the batch requests the key of every predicate of every
\* tree before any value is known, so whatever its siblings return; once the
\* batch is dispatched the resolver calls are one for each distinct key and
\* no more.
C20_NoShortCircuit ==
  api = "conditions" =>
    /\ pc # "start" => DOMAIN cache = AllKeys
    /\ batch \in {"dispatched", "resolved", "rejected"} =>
         /\ {cacheKeyFn(calls[i]) : i \in 1..Len(calls)} = AllKeys
         /\ Len(calls) = Cardinality(AllKeys)

\* C20 witness: someCondition was called although it is the second child of
\* an `and` whose first child is `never`, and the rule's result is false.
C20_Witness ==
  /\ api = "conditions"
  /\ pc = "resolved"
  /\ Len(rules) = 1
  /\ rules[1].conditions =
       Query(<<Field("and", <<>>, <<Predicate("never"), Predicate("someCondition")>>)>>)
  /\ Len(calls) = 2
  /\ calls[2].name = "someCondition"
  /\ results = <<FALSE>>

\* C21: an executor whose custom fields are all declared with the named type
\* Void, each with a resolver function and no resolver besides, is
\* constructed.
C21_VoidFieldsConstruct ==
  (/\ api = "constructor"
   /\ construction.state # "new"
   /\ Len(construction.fields) > 0
   /\ \A i \in 1..Len(construction.fields) :
        /\ construction.fields[i].v = [kind |-> "NamedType", name |-> "Void"]
        /\ Arg(construction.resolvers, construction.fields[i].k) = Function
   /\ Len(construction.resolvers) = Len(construction.fields))
  => construction.state = "constructed"

\* C22: every call of processRules sooner or later has resolved or rejected,
\* and stays so.
C22_EventuallySettles == <>[](pc \in {"resolved", "rejected"})

\* C22 witness: processRules has resolved after a custom condition and a
\* custom effect, both asynchronous, have settled.
C22_Witness ==
  /\ api = "processRules"
  /\ pc = "resolved"
  /\ "someCondition:{}" \in DOMAIN cache
  /\ \E k \in 1..Len(invoked) : invoked[k].name = "customEffect"

\* C23: when the selection has been made, the i-th path of the path map of
\* the rules denotes the i-th rule of the flattened rules, whose result is
\* the i-th result.
C23_PathsAlignWithResults ==
  (api = "processRules" /\ pc \in {"effects", "resolved"}) =>
    LET rulePaths == ObjectKeys(getPathMap(rules))
        flattenedRules == flattenDeep(rules)
    IN /\ Len(rulePaths) = Len(flattenedRules)
       /\ \A i \in 1..Len(rulePaths) : Get(rules, rulePaths[i]) = flattenedRules[i]

C25_IncludesIffMember ==
  (api = "includes" /\ resolverCall.state = "returned") =>
    LET actual == resolverCall.context.foo
        val == Arg(resolverCall.args, "value")
    IN ToBoolean(resolverCall.outcome)
       <=> (IsArray(actual) /\ \E i \in 1..Len(actual.items) : actual.items[i] = val)

\* C26: when executeAll has settled, every rule of the caller's collection,
\* the value of its metadata field included, is what it was before the call.
C26_RulesUnchanged ==
  (api = "metadata" /\ pc \in {"resolved", "rejected"}) =>
    \A i \in 1..Len(rules) : rules[i] = MetadataRule(i, rules[i].effects)

\* C27: a call of default that returns writes the value when the value at
\* the path was undefined and leaves the context as it was when the value
\* was anything else, null, false, 0 and the empty string included; the
\* calls after the first leave the context as the first left it.
C27_DefaultOnlyWhenUndefined ==
  (api = "builtin" /\ resolverCall.name = "default") =>
    \A k \in 1..Len(resolverCall.errors) :
      resolverCall.errors[k] = None =>
        LET before == resolverCall.history[k]
            after == resolverCall.history[k + 1]
        IN /\ ~IsUndefined(before.foo) => after = before
           /\ (IsUndefined(before.foo) /\ Arg(resolverCall.args, "value") = Str("2")) =>
                after = [before EXCEPT !.foo = Num(2)]
           /\ k > 1 => after = before

\* C27 witness: default was called twice with the value 2 on a context
\* whose foo is null, and foo is still null.
C27_Witness ==
  /\ api = "builtin"
  /\ resolverCall.name = "default"
  /\ Arg(resolverCall.args, "value") = Str("2")
  /\ resolverCall.errors = <<None, None>>
  /\ resolverCall.history[1].foo = Null
  /\ resolverCall.context.foo = Null

\* C28: a call of a built-in effect that throws (both or neither of value
\* and valuePath, a text that is no JSON, a value of the wrong type at the
\* path, a division by zero) leaves the context as it was before the call.
C28_FailsBeforeAnyWrite ==
  api = "builtin" =>
    \A k \in 1..Len(resolverCall.errors) :
      resolverCall.errors[k] # None =>
        resolverCall.history[k + 1] = resolverCall.history[k]

\* C28 witness: divide by zero has thrown a RangeError on a context whose
\* foo is 16, and foo is 16.
C28_Witness ==
  /\ api = "builtin"
  /\ resolverCall.name = "divide"
  /\ Arg(resolverCall.args, "value") = Num(0)
  /\ Len(resolverCall.errors) > 0
  /\ resolverCall.errors[1] = RangeError
  /\ resolverCall.history[1].foo = Num(16)
  /\ resolverCall.context.foo = Num(16)

AllSynchronous(effects) ==
  \A i \in 1..Len(effects) : effects[i].name \in SyncEffectResolvers

\* add and multiply applied one after the other, each to what the one before
\* has left
RECURSIVE InDocumentOrder(_, _, _)
InDocumentOrder(effects, i, foo) ==
  IF i > Len(effects) THEN foo
  ELSE InDocumentOrder(effects, i + 1,
         IF effects[i].name = "add"
         THEN foo + ArgumentValue(effects[i].arguments, "value").n
         ELSE foo * ArgumentValue(effects[i].arguments, "value").n)

\* C29: the resolvers of a rule are invoked in document order, and when the
\* operations of the rule last started all have synchronous resolvers, foo is
\* what the rules before have left with the rule's operations applied to it
\* one after the other in document order.
C29_DocumentOrderWithinRule ==
  api = "effects" =>
    /\ \A a \in 1..Len(invoked) : \A b \in 1..Len(invoked) :
         (a < b /\ invoked[a].position = invoked[b].position) =>
           invoked[a].op < invoked[b].op
    /\ (current > 0 /\ AllSynchronous(selected[current].effects)) =>
         context.foo =
           Num(InDocumentOrder(selected[current].effects, 1,
                               AfterRules(current - 1, InitialContext.foo.n)))

\* C29 witness: the one rule { add 4, multiply 3 } on 7 has given 33.
C29_Witness ==
  /\ api = "effects"
  /\ pc = "resolved"
  /\ Len(rules) = 1
  /\ rules[1].effects = <<Operation("add", "foo", 4), Operation("multiply", "foo", 3)>>
  /\ Len(invoked) = 2
  /\ context.foo = Num(33)

\* C30: when an operation of a rule has failed, every other operation of the
\* rule that has a resolver has been invoked, those listed after the failed
\* one included, and the write of each such operation with a synchronous
\* resolver is in the context, also after executeAll has rejected.
C30_SiblingsOfFailureInvoked ==
  api = "effects" =>
    \A r \in 1..Len(ops) : \A i \in 1..Len(ops[r]) :
      ops[r][i] = "rejected" =>
        /\ Len(ops[r]) = Len(selected[r].effects)
        /\ \A j \in 1..Len(selected[r].effects) :
             (j # i /\ selected[r].effects[j].name \in EffectResolvers) =>
               \E k \in 1..Len(invoked) : invoked[k].position = r /\ invoked[k].op = j
        /\ \A j \in 1..Len(selected[r].effects) :
             selected[r].effects[j].name \in SyncEffectResolvers =>
               ops[r][j] = "fulfilled"
        /\ context.foo =
             Num(AfterRule(selected[r].effects, ops[r],
                           AfterRules(r - 1, InitialContext.foo.n)))

\* C30 witness: executeAll has rejected for the operation without a resolver
\* that is listed first, and the add listed after it was made.
C30_Witness ==
  /\ api = "effects"
  /\ pc = "rejected"
  /\ Len(rules) = 1
  /\ rules[1].effects = <<Field("orphanEffect", <<>>, <<>>), Operation("add", "foo", 4)>>
  /\ ops = <<(<<"rejected", "fulfilled">>)>>
  /\ Len(invoked) = 1
  /\ invoked[1].op = 2
  /\ context.foo = Num(11)

====
